---- MODULE Spec2Model ----
(***************************************************************************)
(* memcards: the live review-session engine.                               *)
(*                                                                         *)
(* One session is followed through its whole life: the session_request     *)
(* webhook (sdk.rs webhook_handler), AppSession::connect with its retry    *)
(* loop and its inbound task (sdk/app_session.rs), AppState::on_session    *)
(* and the review handlers it registers (srs.rs), and the stop_request     *)
(* webhook.  The flashcard table is the persistent store the handlers      *)
(* read and update.                                                        *)
(***************************************************************************)
EXTENDS Integers, Sequences, FiniteSets, TLC

VARIABLES
    store,                 \* flashcard table: id -> row
    pc,                    \* where the session_request webhook handler is
    attempt,               \* connect: the loop variable `attempt`
    last_error,            \* connect: `last_error`
    connLog,               \* history: connection attempts and backoff sleeps
    connect_result,        \* what connect() returned: "pending", "ok" or the error text
    connected,             \* AppSession.connected
    websocket_sender,      \* AppSession.websocket_sender is Some
    wsOpen,                \* the websocket is open (the remote has not closed it)
    inbound,               \* the inbound task: "none", "running", "ended", "panicked"
    active_sessions,       \* AppState.active_sessions: the registered session ids
    response,              \* the webhook's response: "none", "success", "error"
    sent,                  \* frames placed on the connection, in order
    handlers,              \* on_session registered the review handlers
    cards,                 \* SessionState.cards
    started,               \* SessionState.started
    last_card,             \* SessionState.last_card
    max_cards_per_session, \* UserSettings.max_cards_per_session
    desired_retention,     \* UserSettings.desired_retention
    tasks,                 \* the requeue tasks spawned by refetch_cards_initial_change
    errors,                \* history: the errors the session's own code logged, in order
    hist,                  \* history of the review: see HistInit
    token_text,            \* the text handed to verify_frontend_token
    token_pc,              \* "idle", "given" or "verified"
    token_verdict,         \* what verify_frontend_token returned
    rating_pc,             \* update_rating on its own: "idle", "loaded" or "done"
    fsrs_call,             \* the arguments schedule_states gave to fsrs.next_states, if it called
    rating_result,         \* how update_rating ended
    import_pc,             \* import_anki_text: "idle" or "reading"
    front_idx,             \* import_anki_text: `front_idx`
    back_idx,              \* import_anki_text: `back_idx`
    separator,             \* import_anki_text: `separator`
    flashcards,            \* import_anki_text: `flashcards`
    lines_read,            \* history: the lines the loop has taken
    rating_tasks,          \* the tasks the transcription handler spawned, one by one
    last_card_lock,        \* the Mutex around SessionState.last_card: holder and waiters
    app_sessions,          \* the AppSessions the webhooks made for the session id, in order
    registered,            \* which of them active_sessions holds under the id (0: none)
    task_emissions,        \* history: the emits of their inbound tasks
    call,                  \* the last call of subscribe_to_streams / send_display_request
    lock_holder,           \* the task holding the sink's Mutex, if any
    lock_waiters,          \* the tasks waiting for the Mutex, in the order they asked
    wpc,                   \* each writer's position in its send
    wire,                  \* the pieces of frames written to the sink, in order
    requests,              \* history: the writers in the order they asked to send
    req,                   \* auth_middleware: the credentials the request carries
    auth_pc,               \* auth_middleware: "idle", "received", "forwarded"
    user_id,               \* auth_middleware: `user_id`, then AuthUser
    set_cookie,            \* auth_middleware: the aos_session cookie added to the jar
    auth_method,           \* history: the branch that set user_id
    forwarded,             \* history: how often next.run(req) was called
    stream_handlers,       \* EventManager.stream_handlers: stream type -> handlers
    system_handlers,       \* EventManager.system_handlers: event name -> handlers
    active_subscriptions,  \* EventManager.active_subscriptions
    registrations,         \* history: the handlers in the order they were registered
    emissions,             \* history: each emit, with the handlers it invoked
    received               \* history: the text frames the inbound loop took, in order

vars == <<store, pc, attempt, last_error, connLog, connect_result, connected,
          websocket_sender, wsOpen, inbound, active_sessions, response, sent,
          handlers, cards, started, last_card, max_cards_per_session,
          desired_retention, tasks, errors, hist, call, lock_holder,
          lock_waiters, wpc, wire, requests, req, auth_pc, user_id,
          set_cookie, auth_method, forwarded, stream_handlers, system_handlers,
          active_subscriptions, registrations, emissions, received,
          token_text, token_pc, token_verdict, rating_pc, fsrs_call,
          rating_result, import_pc, front_idx, back_idx, separator,
          flashcards, lines_read, rating_tasks, last_card_lock, app_sessions,
          registered, task_emissions>>

\* The variables the webhook, connect and the review handlers never touch.
extVars == <<call, lock_holder, lock_waiters, wpc, wire, requests, req, auth_pc,
             user_id, set_cookie, auth_method, forwarded, stream_handlers,
             system_handlers, active_subscriptions, registrations, emissions,
             received, token_text, token_pc,
             token_verdict, rating_pc, fsrs_call, rating_result, import_pc,
             front_idx, back_idx, separator, flashcards, lines_read,
             rating_tasks, last_card_lock, app_sessions, registered,
             task_emissions>>

busVars == <<stream_handlers, system_handlers, active_subscriptions, registrations,
             emissions, received>>

authVars == <<req, auth_pc, user_id, set_cookie, auth_method, forwarded>>

\* The variables of the functions that are checked on their own.
tokenVars == <<token_text, token_pc, token_verdict>>

ratingVars == <<rating_pc, fsrs_call, rating_result>>

importVars == <<import_pc, front_idx, back_idx, separator, flashcards, lines_read>>

ratingTaskVars == <<rating_tasks, last_card_lock>>

webhookVars == <<app_sessions, registered, task_emissions>>

sideVars == <<importVars, ratingTaskVars, webhookVars>>

fnVars == <<tokenVars, ratingVars, sideVars>>

lockVars == <<lock_holder, lock_waiters, wpc, wire, requests>>

\* The variables of the webhook, of connect and of the review.
coreVars == <<store, pc, attempt, last_error, connLog, connect_result, connected,
              websocket_sender, wsOpen, inbound, active_sessions, response, sent,
              handlers, cards, started, last_card, max_cards_per_session,
              desired_retention, tasks, errors, hist>>

transportVars == <<pc, attempt, last_error, connLog, connect_result, connected,
                   websocket_sender, wsOpen, inbound, active_sessions, response>>

reviewVars == <<cards, started, last_card, tasks>>

settingsVars == <<max_cards_per_session, desired_retention>>

(***************************************************************************)
(* Bounds of the model.                                                    *)
(***************************************************************************)
NumCards == 3        \* flashcards in the table
MaxSent == 7         \* frames on the connection after which no command is taken
MaxRequeue == 1      \* requeue tasks spawned in one session
MaxErrors == 2       \* logged errors after which no command is taken
MaxCalls == 2        \* calls of the session's senders by its owner
MaxLockRequests == 4 \* sends asked for on one connection
MaxHandlers == 3     \* handlers registered by the event manager's caller
MaxEmissions == 2    \* emits made by the event manager's caller
MaxWebhooks == 3     \* session_request webhooks for one session id
MaxOverlap == 2      \* requeue tasks that can overlap
MaxRatingTasks == 2  \* rating transcriptions dispatched back to back
MaxLineLen == 3      \* characters in a line of an imported file
MaxLines == 2        \* lines of an imported file
MaxIdx == 1          \* the highest column index asked for
MaxTokenLen == 5     \* characters of a frontend token
DigestLen == 2       \* characters of a hex digest (64 in the program)
MaxFrames == 3       \* text frames the inbound loop takes

(***************************************************************************)
(* Program constants.                                                      *)
(***************************************************************************)
MaxAttempts == 3
BackoffUnitMs == 1000
QueueCapacity == 100
MaxSetting == 100
DefaultMaxCards == 20
DefaultRetention == 75
DayMinutes == 1440

(***************************************************************************)
(* Option values: None is <<>>, Some(v) is <<v>>.                          *)
(***************************************************************************)
None == <<>>
Some(v) == <<v>>
IsSome(o) == o # <<>>
Get(o) == o[1]

Min(a, b) == IF a <= b THEN a ELSE b

(***************************************************************************)
(* The store.  Deck 1 belongs to the session's user, deck 2 to another     *)
(* user.  Time is in minutes; Now is the wall clock of the session.        *)
(***************************************************************************)
SessionId == "s1"
SessionUser == "alice"
OtherUser == "bob"
Decks == {1, 2}
DeckOwner(d) == IF d = 1 THEN SessionUser ELSE OtherUser
CardIds == 1..NumCards
Now == 10 * DayMinutes
Tab == "\t"
Ratings == {"easy", "good", "difficult", "again"}

\* A flashcard created by the CRUD surface and never reviewed.
NewRow(id, d) ==
    [id |-> id, deck_id |-> d, last_rating |-> None, last_reviewed |-> None,
     last_scheduled |-> None, last_stability |-> None, last_difficulty |-> None]

\* A flashcard as an earlier rating left it.
ReviewedRow(id, d, sched) ==
    [id |-> id, deck_id |-> d, last_rating |-> Some("good"),
     last_reviewed |-> Some(Now - 5 * DayMinutes),
     last_scheduled |-> Some(sched), last_stability |-> Some(1),
     last_difficulty |-> Some(1)]

\* The card with the highest id sits in the other user's deck.
DeckOf(id) == IF id = NumCards THEN 2 ELSE 1

\* Distinct past schedules, later ids due for longer.
PastSchedule(id) == Now - id * DayMinutes

InitRows(id) ==
    {NewRow(id, DeckOf(id)), ReviewedRow(id, DeckOf(id), PastSchedule(id))}
        \cup (IF DeckOf(id) = 1
                THEN {ReviewedRow(id, 1, Now + DayMinutes)}
                ELSE {})

(***************************************************************************)
(* get_cards (srs.rs 299-343): the SQL query and the queue it fills.       *)
(***************************************************************************)
\* WHERE deck_id IN (SELECT id FROM deck WHERE user_id = $1)
\*   AND last_scheduled <= NOW() OR last_scheduled IS NULL
\* AND binds tighter than OR.
WhereDue(row, user) ==
    \/ /\ DeckOwner(row.deck_id) = user
       /\ IsSome(row.last_scheduled)
       /\ Get(row.last_scheduled) <= Now
    \/ row.last_scheduled = None

\* ORDER BY last_scheduled NULLS LAST, id
OrderBefore(a, b) ==
    IF IsSome(a.last_scheduled) /\ IsSome(b.last_scheduled)
      THEN \/ Get(a.last_scheduled) < Get(b.last_scheduled)
           \/ /\ Get(a.last_scheduled) = Get(b.last_scheduled)
              /\ a.id < b.id
      ELSE IF IsSome(a.last_scheduled) THEN TRUE
      ELSE IF IsSome(b.last_scheduled) THEN FALSE
      ELSE a.id < b.id

RECURSIVE SortRows(_)
SortRows(rows) ==
    IF rows = {} THEN <<>>
    ELSE LET first == CHOOSE r \in rows :
                        \A o \in rows \ {r} : OrderBefore(r, o)
         IN  <<first>> \o SortRows(rows \ {first})

\* LIMIT $2
Limit(seq, n) == SubSeq(seq, 1, Min(n, Len(seq)))

\* ArrayQueue::force_push: a full queue drops its oldest element.
ForcePush(q, x) ==
    IF Len(q) >= QueueCapacity THEN Append(Tail(q), x) ELSE Append(q, x)

RECURSIVE PushAll(_, _)
PushAll(q, seq) ==
    IF seq = <<>> THEN q ELSE PushAll(ForcePush(q, Head(seq)), Tail(seq))

get_cards(db, user, limit) ==
    PushAll(<<>>, Limit(SortRows({r \in {db[i] : i \in DOMAIN db} :
                                    WhereDue(r, user)}),
                        limit))

Ids(q) == [i \in 1..Len(q) |-> q[i].id]

(***************************************************************************)
(* Frames on the connection.                                               *)
(***************************************************************************)
Frame(kind, card, n) == [kind |-> kind, card |-> card, n |-> n]
InitFrame == Frame("connection_init", 0, 0)
SubscriptionFrame == Frame("subscription_update", 0, 0)
\* on_session / on_init: "<n> cards for review", or "No flashcards scheduled" (n = 0)
AnnounceFrame(n) == Frame("announce", 0, n)
\* SELECT id, name FROM deck WHERE user_id = $1 (srs.rs 304-319): the map
\* on_session and the requeue task put in SessionState.deck_names.
DeckTitle(d) == IF d = 1 THEN "deck one" ELSE "deck two"

deck_names(user) == [d \in {x \in Decks : DeckOwner(x) = user} |-> DeckTitle(d)]

\* deck_names.get(&last_card.deck_id).map(..).unwrap_or_default() (srs.rs 152-156)
DeckNameOf(card, user) ==
    IF card.deck_id \in DOMAIN deck_names(user)
      THEN deck_names(user)[card.deck_id] ELSE ""

\* next_card_or_finish: the card's front over "<deck> (<n> left)"
FrontFrame(card, left) ==
    [kind |-> "front", card |-> card.id, n |-> left,
     deck |-> DeckNameOf(card, SessionUser)]
AllReviewedFrame == Frame("all_reviewed", 0, 0)
\* on_reveal: the card's front over its back
RevealFrame(card) == Frame("reveal", card.id, 0)

(***************************************************************************)
(* The initial state: the webhook has not been called yet.                 *)
(***************************************************************************)
HistInit ==
    [atStart |-> <<>>,        \* the queue's ids when 'start' was handled
     shown |-> <<>>,          \* the ids made the current card, in order
     persisted |-> <<>>,      \* the ids whose rating was written, in order
     ratings |-> 0,           \* rating commands handled
     failures |-> 0,          \* ratings whose persistence failed
     lateRequeue |-> FALSE,   \* a requeue replaced the queue after 'start'
     stopped |-> FALSE,       \* a stop_request removed the session
     url |-> "none"]          \* the kind of URL the session_request carried

\* No call of the session's senders was made yet.
NoCall == [op |-> "none", result |-> "none", n |-> 0]

\* StreamType (sdk/events.rs 5-28) and the event names of on_system: the
\* ones on_session registers handlers for.
StreamTags == {"Transcription", "ButtonPress", "HeadPosition"}

SystemNames == {"connected", "settings_update"}

Handler(id, panics) == [id |-> id, panics |-> panics]

\* A request that carries no credential.
EmptyRequest ==
    [signed_query |-> None, bearer |-> None, temp |-> None,
     frontend_query |-> None, cookie |-> None]

\* The tasks that write to one connection's sink: connect (the init
\* message), on_session (subscription, announcement), the inbound task
\* (pong), and the tasks the review handlers spawn (display requests).
Writers == {"connect", "on_session", "inbound", "review1", "review2"}

Init ==
    /\ store \in [CardIds -> UNION {InitRows(i) : i \in CardIds}]
    /\ \A i \in CardIds : store[i] \in InitRows(i)
    /\ pc = "webhook"
    /\ attempt = 1
    /\ last_error = ""
    /\ connLog = <<>>
    /\ connect_result = "pending"
    /\ connected = FALSE
    /\ websocket_sender = FALSE
    /\ wsOpen = FALSE
    /\ inbound = "none"
    /\ active_sessions = {}
    /\ response = "none"
    /\ sent = <<>>
    /\ handlers = FALSE
    /\ cards = <<>>
    /\ started = FALSE
    /\ last_card = None
    /\ max_cards_per_session = DefaultMaxCards
    /\ desired_retention = DefaultRetention
    /\ tasks = <<>>
    /\ errors = <<>>
    /\ hist = HistInit
    /\ call = NoCall
    /\ lock_holder = None
    /\ lock_waiters = <<>>
    /\ wpc = [w \in Writers |-> "idle"]
    /\ wire = <<>>
    /\ requests = <<>>
    /\ req = EmptyRequest
    /\ auth_pc = "idle"
    /\ user_id = None
    /\ set_cookie = None
    /\ auth_method = "none"
    /\ forwarded = 0
    /\ stream_handlers = [t \in StreamTags |-> <<>>]
    /\ system_handlers = [t \in SystemNames |-> <<>>]
    /\ active_subscriptions = {}
    /\ registrations = <<>>
    /\ emissions = <<>>
    /\ received = <<>>
    /\ token_text = <<>>
    /\ token_pc = "idle"
    /\ token_verdict = None
    /\ rating_pc = "idle"
    /\ fsrs_call = None
    /\ rating_result = "none"
    /\ import_pc = "idle"
    /\ front_idx = 0
    /\ back_idx = 0
    /\ separator = Tab
    /\ flashcards = <<>>
    /\ lines_read = <<>>
    /\ rating_tasks = [t \in 1..MaxRatingTasks |-> [pc |-> "none"]]
    /\ last_card_lock = [holder |-> 0, waiters |-> <<>>]
    /\ app_sessions = <<>>
    /\ registered = 0
    /\ task_emissions = <<>>

(***************************************************************************)
(* webhook_handler, "session_request" (sdk.rs 305-404).                    *)
(***************************************************************************)
UrlKinds == {"trusted", "other_domain", "no_domain", "unparsable"}

\* A check that only asks the URL to parse to a URL with a domain.
UrlAcceptedAnyDomain(url) == url \in {"trusted", "other_domain"}

\* sdk.rs 315-339: the URL parses and its domain is the configured one.
UrlAccepted(url) == url = "trusted"

SessionRequest(url) ==
    /\ pc = "webhook"
    /\ IF UrlAccepted(url)
         THEN /\ pc' = "connect"          \* AppSession::new, then connect()
              /\ response' = response
         ELSE /\ pc' = "done"
              /\ response' = "error"
    /\ hist' = [hist EXCEPT !.url = url]
    /\ UNCHANGED <<store, attempt, last_error, connLog, connect_result, connected,
                   websocket_sender, wsOpen, inbound, active_sessions, sent,
                   handlers, reviewVars, settingsVars, errors>>
    /\ UNCHANGED extVars

(***************************************************************************)
(* AppSession::connect (app_session.rs 127-317).                           *)
(***************************************************************************)
ConnectErrors == {"refused", "timeout"}

\* A backoff that does not grow with the attempt number.
BackoffDelayFlat(n) == BackoffUnitMs

\* app_session.rs 306: the sleep before the next attempt.
BackoffDelay(n) == BackoffUnitMs * n

\* app_session.rs 143: for attempt in 1..=3
LastAttempt(n) == n >= MaxAttempts

\* connect_async failed (app_session.rs 298-311, 314-316).
ConnectAttemptFails(err) ==
    /\ pc = "connect"
    /\ connLog' = Append(connLog, [ev |-> "attempt", n |-> attempt, ok |-> FALSE,
                                   err |-> err])
    /\ last_error' = err
    /\ IF ~LastAttempt(attempt)
         THEN /\ pc' = "backoff"
              /\ UNCHANGED <<connected, connect_result, response>>
         ELSE /\ connected' = FALSE
              /\ connect_result' = err          \* bail!(last_error)
              /\ response' = "error"            \* sdk.rs 382-390
              /\ pc' = "done"
    /\ UNCHANGED <<store, attempt, websocket_sender, wsOpen, inbound,
                   active_sessions, sent, handlers, reviewVars, settingsVars,
                   errors, hist>>
    /\ UNCHANGED extVars

\* tokio::time::sleep(delay) and the loop's next iteration.
Backoff ==
    /\ pc = "backoff"
    /\ connLog' = Append(connLog, [ev |-> "wait", n |-> BackoffDelay(attempt),
                                   ok |-> TRUE, err |-> ""])
    /\ attempt' = attempt + 1
    /\ pc' = "connect"
    /\ UNCHANGED <<store, last_error, connect_result, connected, websocket_sender,
                   wsOpen, inbound, active_sessions, response, sent, handlers,
                   reviewVars, settingsVars, errors, hist>>
    /\ UNCHANGED extVars

\* connect_async succeeded (app_session.rs 145-160).
ConnectAttemptSucceeds ==
    /\ pc = "connect"
    /\ connLog' = Append(connLog, [ev |-> "attempt", n |-> attempt, ok |-> TRUE,
                                   err |-> ""])
    /\ wsOpen' = TRUE
    /\ websocket_sender' = TRUE
    /\ pc' = "handshake"
    /\ UNCHANGED <<store, attempt, last_error, connect_result, connected, inbound,
                   active_sessions, response, sent, handlers, reviewVars,
                   settingsVars, errors, hist>>
    /\ UNCHANGED extVars

\* A connect that marks the session connected and spawns the inbound task
\* before it looks at the result of the init send.
HandshakeConnectsBeforeSend ==
    /\ pc = "handshake"
    /\ connected' = TRUE
    /\ inbound' = "running"
    /\ IF wsOpen
         THEN /\ sent' = Append(sent, InitFrame)
              /\ connect_result' = "ok"
              /\ pc' = "subscribe"
              /\ response' = response
         ELSE /\ connect_result' = "Failed to send init message"
              /\ response' = "error"
              /\ pc' = "done"
              /\ sent' = sent
    /\ UNCHANGED <<store, attempt, last_error, connLog, websocket_sender, wsOpen,
                   active_sessions, handlers, reviewVars, settingsVars, errors, hist>>
    /\ UNCHANGED extVars

\* The init message, connected = true and the spawn of the inbound task
\* (app_session.rs 163-296); a failed send bails out of connect (185-187).
Handshake ==
    /\ pc = "handshake"
    /\ IF wsOpen
         THEN /\ sent' = Append(sent, InitFrame)
              /\ connected' = TRUE
              /\ inbound' = "running"
              /\ connect_result' = "ok"
              /\ pc' = "subscribe"              \* sdk.rs 354: on_session
              /\ response' = response
         ELSE /\ connect_result' = "Failed to send init message"
              /\ response' = "error"
              /\ pc' = "done"
              /\ UNCHANGED <<sent, connected, inbound>>
    /\ UNCHANGED <<store, attempt, last_error, connLog, websocket_sender, wsOpen,
                   active_sessions, handlers, reviewVars, settingsVars, errors, hist>>
    /\ UNCHANGED extVars

(***************************************************************************)
(* EventManager (sdk/event_manager.rs).  A handler is a closure; here it   *)
(* is its number in the order of registration, and whether it panics.      *)
(***************************************************************************)
\* .entry(tag).or_default().push(handler)
Register(map, tag, h) == [map EXCEPT ![tag] = Append(@, h)]

Registration(kind, tag, h) ==
    [kind |-> kind, tag |-> tag, id |-> h.id, panics |-> h.panics]

NextHandlerId == Len(registrations) + 1

\* The for loop of emit_stream_event / emit_system_event: each handler runs
\* inside catch_unwind, and a panic is logged.
RECURSIVE EmitLoop(_, _)
EmitLoop(hs, acc) ==
    IF hs = <<>> THEN acc
    ELSE EmitLoop(Tail(hs),
                  [called |-> Append(acc.called, Head(hs).id),
                   caught |-> acc.caught + IF Head(hs).panics THEN 1 ELSE 0])

NoneCalled == [called |-> <<>>, caught |-> 0]

\* An emit that walks the handlers from the newest to the oldest.
EmitToNewestFirst(hs) ==
    EmitLoop([i \in 1..Len(hs) |-> hs[Len(hs) + 1 - i]], NoneCalled)

\* An emit without catch_unwind: the first panic ends the loop.
EmitToStopsAtPanic(hs) ==
    LET panicking == {i \in 1..Len(hs) : hs[i].panics}
        last == IF panicking = {} THEN Len(hs)
                ELSE CHOOSE i \in panicking : \A j \in panicking : i <= j
    IN  EmitLoop(SubSeq(hs, 1, last), NoneCalled)

\* sdk/event_manager.rs 100-129
EmitTo(hs) == EmitLoop(hs, NoneCalled)

\* One emit as the history keeps it: the tag, the frame it came from (0 for
\* a caller's own emit), how many handlers were registered by then, and
\* the handlers that ran.
Emission(kind, tag, frame) ==
    LET run == EmitTo(IF kind = "stream" THEN stream_handlers[tag]
                                          ELSE system_handlers[tag])
    IN  [kind |-> kind, tag |-> tag, frame |-> frame,
         regAt |-> Len(registrations), called |-> run.called, caught |-> run.caught]

\* EventManager::on_stream (sdk/event_manager.rs 39-50)
OnStream(tag, panics) ==
    /\ Len(registrations) < MaxHandlers
    /\ stream_handlers' = Register(stream_handlers, tag, Handler(NextHandlerId, panics))
    /\ active_subscriptions' = active_subscriptions \cup {tag}
    /\ registrations' = Append(registrations,
                               Registration("stream", tag, Handler(NextHandlerId, panics)))
    /\ UNCHANGED <<coreVars, call, lockVars, authVars, fnVars, system_handlers, emissions,
                   received>>

\* EventManager::on_system (sdk/event_manager.rs 53-61)
OnSystem(name, panics) ==
    /\ Len(registrations) < MaxHandlers
    /\ system_handlers' = Register(system_handlers, name, Handler(NextHandlerId, panics))
    /\ registrations' = Append(registrations,
                               Registration("system", name, Handler(NextHandlerId, panics)))
    /\ UNCHANGED <<coreVars, call, lockVars, authVars, fnVars, stream_handlers,
                   active_subscriptions, emissions, received>>

\* EventManager::emit_stream_event (sdk/event_manager.rs 100-113)
EmitStreamEvent(tag) ==
    /\ Len(emissions) < MaxEmissions
    /\ emissions' = Append(emissions, Emission("stream", tag, 0))
    /\ UNCHANGED <<coreVars, call, lockVars, authVars, fnVars, stream_handlers,
                   system_handlers, active_subscriptions, registrations, received>>

\* EventManager::emit_system_event (sdk/event_manager.rs 116-129)
EmitSystemEvent(name) ==
    /\ Len(emissions) < MaxEmissions
    /\ emissions' = Append(emissions, Emission("system", name, 0))
    /\ UNCHANGED <<coreVars, call, lockVars, authVars, fnVars, stream_handlers,
                   system_handlers, active_subscriptions, registrations, received>>

\* srs.rs 432-484: on_session registers, in this order, the handlers of
\* "connected", "settings_update", head position, button press and
\* transcription.
SessionHandlers ==
    <<[kind |-> "system", tag |-> "connected"],
      [kind |-> "system", tag |-> "settings_update"],
      [kind |-> "stream", tag |-> "HeadPosition"],
      [kind |-> "stream", tag |-> "ButtonPress"],
      [kind |-> "stream", tag |-> "Transcription"]>>

RECURSIVE RegisterAll(_, _, _, _)
RegisterAll(map, kind, todo, id) ==
    IF todo = <<>> THEN map
    ELSE RegisterAll(IF Head(todo).kind = kind
                       THEN Register(map, Head(todo).tag, Handler(id, FALSE))
                       ELSE map,
                     kind, Tail(todo), id + 1)

RegisterSessionHandlers ==
    /\ stream_handlers' =
          RegisterAll(stream_handlers, "stream", SessionHandlers, NextHandlerId)
    /\ system_handlers' =
          RegisterAll(system_handlers, "system", SessionHandlers, NextHandlerId)
    /\ active_subscriptions' =
          active_subscriptions \cup
            {SessionHandlers[i].tag : i \in {j \in 1..Len(SessionHandlers) :
                                               SessionHandlers[j].kind = "stream"}}
    /\ registrations' =
          registrations \o
            [i \in 1..Len(SessionHandlers) |->
               Registration(SessionHandlers[i].kind, SessionHandlers[i].tag,
                            Handler(NextHandlerId + i - 1, FALSE))]

(***************************************************************************)
(* The inbound task's loop over text frames (app_session.rs 220-237) and   *)
(* handle_websocket_message (320-657).  A frame is what decoding makes of  *)
(* it.                                                                     *)
(***************************************************************************)
FrameKinds ==
    {"not_json",            \* serde_json::from_str fails
     "no_type",             \* JSON without a string "type"
     "connection_ack",
     "button_press",        \* data_stream, streamType button_press
     "transcription",       \* data_stream, streamType transcription:en-US
     "transcription_cut",   \* the same, byte 10 of the text is inside a character
     "unknown_type"}

\* app_session.rs 325-332: the two ways the decode fails.
DecodeFails(frame) == frame \in {"not_json", "no_type"}

\* app_session.rs 524-529: &text[..10] panics off a character boundary.
LogPanics(frame) == frame = "transcription_cut"

\* The event handle_websocket_message emits for a frame, if any.
EventOf(frame) ==
    CASE frame = "connection_ack" -> Some([kind |-> "system", tag |-> "connected"])
      [] frame = "button_press" -> Some([kind |-> "stream", tag |-> "ButtonPress"])
      [] frame \in {"transcription", "transcription_cut"} ->
           Some([kind |-> "stream", tag |-> "Transcription"])
      [] OTHER -> None

\* One turn of the loop for a text frame.
InboundFrame(frame) ==
    /\ inbound = "running"
    /\ Len(received) < MaxFrames
    /\ received' = Append(received, frame)
    /\ IF DecodeFails(frame)
         THEN UNCHANGED <<inbound, emissions>>          \* warn!, next frame
         ELSE IF LogPanics(frame)
           THEN /\ inbound' = "panicked"                \* the task unwinds
                /\ emissions' = emissions
           ELSE /\ inbound' = inbound
                /\ emissions' =
                      IF IsSome(EventOf(frame))
                        THEN Append(emissions,
                                    Emission(Get(EventOf(frame)).kind,
                                             Get(EventOf(frame)).tag,
                                             Len(received) + 1))
                        ELSE emissions
    /\ UNCHANGED <<store, pc, attempt, last_error, connLog, connect_result,
                   connected, websocket_sender, wsOpen, active_sessions, response,
                   sent, handlers, reviewVars, settingsVars, errors, hist>>
    /\ UNCHANGED <<call, lockVars, authVars, fnVars, stream_handlers, system_handlers,
                   active_subscriptions, registrations>>

(***************************************************************************)
(* AppSession's own senders (app_session.rs 672-740): they refuse when the *)
(* session is not connected, and fail when the socket is gone.             *)
(***************************************************************************)
\* A sender that does not ask whether the session is connected.
SendOutcomeIgnoresConnected(isConnected, hasSender, open) ==
    IF ~hasSender THEN "WebSocket sender not available"
    ELSE IF ~open THEN "Failed to send"
    ELSE "ok"

\* app_session.rs 673-704, 709-728: how a send ends.
SendOutcome(isConnected, hasSender, open) ==
    IF ~isConnected THEN "Session not connected"
    ELSE IF ~hasSender THEN "WebSocket sender not available"
    ELSE IF ~open THEN "Failed to send"
    ELSE "ok"

SessionSendOk == SendOutcome(connected, websocket_sender, wsOpen) = "ok"

DisplayFrame == Frame("display", 0, 0)

\* connect and disconnect take &mut self and on_session borrows the session:
\* a caller reaches the session's methods before connect and after the webhook.
SessionIdle == pc \in {"webhook", "done"}

ApiCall(op, frame) ==
    /\ SessionIdle
    /\ call.n < MaxCalls
    /\ LET out == SendOutcome(connected, websocket_sender, wsOpen)
       IN  /\ sent' = IF out = "ok" THEN Append(sent, frame) ELSE sent
           /\ call' = [op |-> op, result |-> out, n |-> call.n + 1]
    /\ UNCHANGED <<store, transportVars, handlers, reviewVars, settingsVars,
                   errors, hist, lockVars, authVars, fnVars, busVars>>

\* AppSession::subscribe_to_streams (app_session.rs 672-705).
SubscribeToStreams == ApiCall("subscribe", SubscriptionFrame)

\* AppSession::send_display_request (app_session.rs 708-729).
SendDisplayRequest == ApiCall("display", DisplayFrame)

\* AppSession::disconnect (app_session.rs 660-669).
Disconnect ==
    /\ SessionIdle
    /\ connected
    /\ connected' = FALSE
    /\ UNCHANGED <<store, pc, attempt, last_error, connLog, connect_result,
                   websocket_sender, wsOpen, inbound, active_sessions, response,
                   sent, handlers, reviewVars, settingsVars, errors, hist>>
    /\ UNCHANGED extVars

\* A webhook that registers the session whatever on_session returned.
RegistryAfterOnSessionAlways(registry, ok) == registry \cup {SessionId}

\* sdk.rs 354-379: the session is inserted into active_sessions only in the
\* Ok arm of on_session's result.
RegistryAfterOnSession(registry, ok) ==
    IF ok THEN registry \cup {SessionId} ELSE registry

\* sdk.rs 367-379: on_session failed: session.disconnect(), error response.
OnSessionFailed(what) ==
    /\ connected' = FALSE
    /\ active_sessions' = RegistryAfterOnSession(active_sessions, FALSE)
    /\ response' = "error"
    /\ pc' = "done"
    /\ errors' = Append(errors, what)

\* srs.rs 382-392: subscribe_to_streams.
OnSessionSubscribe ==
    /\ pc = "subscribe"
    /\ IF SessionSendOk
         THEN /\ sent' = Append(sent, SubscriptionFrame)
              /\ pc' = "get_cards"
              /\ UNCHANGED <<connected, active_sessions, response, errors>>
         ELSE /\ OnSessionFailed("subscribe")
              /\ sent' = sent
    /\ UNCHANGED <<store, attempt, last_error, connLog, connect_result,
                   websocket_sender, wsOpen, inbound, handlers, reviewVars,
                   settingsVars, hist>>
    /\ UNCHANGED extVars

\* srs.rs 394-399: the first load of the queue.
OnSessionGetCards(dbOk) ==
    /\ pc = "get_cards"
    /\ IF dbOk
         THEN /\ cards' = get_cards(store, SessionUser, max_cards_per_session)
              /\ pc' = "show_text"
              /\ UNCHANGED <<connected, active_sessions, response, errors>>
         ELSE /\ OnSessionFailed("get_cards")
              /\ cards' = cards
    /\ UNCHANGED <<store, attempt, last_error, connLog, connect_result,
                   websocket_sender, wsOpen, inbound, sent, handlers, started,
                   last_card, tasks, settingsVars, hist>>
    /\ UNCHANGED extVars

\* srs.rs 400-486 and sdk.rs 355-366: the announcement, the handlers, and the
\* insertion into the registry.
OnSessionFinish ==
    /\ pc = "show_text"
    /\ IF SessionSendOk
         THEN /\ sent' = Append(sent, AnnounceFrame(Len(cards)))
              /\ handlers' = TRUE
              /\ active_sessions' = RegistryAfterOnSession(active_sessions, TRUE)
              /\ response' = "success"
              /\ pc' = "done"
              /\ RegisterSessionHandlers
              /\ UNCHANGED <<connected, errors, cards>>
         ELSE /\ OnSessionFailed("show_text")
              /\ cards' = <<>>                  \* the loaded cards are dropped
              /\ UNCHANGED <<sent, handlers, stream_handlers, system_handlers,
                             active_subscriptions, registrations>>
    /\ UNCHANGED <<store, attempt, last_error, connLog, connect_result,
                   websocket_sender, wsOpen, inbound, started, last_card, tasks,
                   settingsVars, hist>>
    /\ UNCHANGED <<call, lockVars, authVars, fnVars, emissions, received>>

(***************************************************************************)
(* The inbound task's end (app_session.rs 246-259, 284-293): a close frame *)
(* or a transport error breaks the loop.  Nothing else is touched.         *)
(***************************************************************************)
InboundEnds(why) ==
    /\ wsOpen
    /\ wsOpen' = FALSE
    /\ inbound' = IF inbound = "running" THEN "ended" ELSE inbound
    /\ UNCHANGED <<store, pc, attempt, last_error, connLog, connect_result,
                   connected, websocket_sender, active_sessions, response, sent,
                   handlers, reviewVars, settingsVars, errors, hist>>
    /\ UNCHANGED extVars

(***************************************************************************)
(* webhook_handler, "stop_request" (sdk.rs 405-452).  on_stop returns Ok.  *)
(***************************************************************************)
StopRequest ==
    /\ pc = "done"
    /\ IF SessionId \in active_sessions
         THEN /\ active_sessions' = active_sessions \ {SessionId}
              /\ connected' = FALSE             \* AppSession::disconnect
              /\ hist' = [hist EXCEPT !.stopped = TRUE]
         ELSE UNCHANGED <<active_sessions, connected, hist>>
    /\ UNCHANGED <<store, pc, attempt, last_error, connLog, connect_result,
                   websocket_sender, wsOpen, inbound, response, sent, handlers,
                   reviewVars, settingsVars, errors>>
    /\ UNCHANGED extVars

(***************************************************************************)
(* SessionState::send_display_request (srs.rs 129-146): it looks at the    *)
(* sender it cloned in on_session, never at AppSession.connected.          *)
(***************************************************************************)
DisplayOk == websocket_sender /\ wsOpen

SentWith(frame) == IF DisplayOk THEN Append(sent, frame) ELSE sent

\* error!("Failed to send display request")
ErrorsWith(errs) == IF DisplayOk THEN errs ELSE Append(errs, "display")

(***************************************************************************)
(* next_card_or_finish (srs.rs 149-176).                                   *)
(***************************************************************************)
NextCards(q) == IF q # <<>> THEN Tail(q) ELSE q

\* A next_card_or_finish that keeps the current card once there is one.
NextLastKeepsCurrent(q, lc) ==
    IF q # <<>> /\ lc = None THEN Some(Head(q)) ELSE lc

NextLast(q, lc) == IF q # <<>> THEN Some(Head(q)) ELSE lc

NextFrame(q) ==
    IF q # <<>> THEN FrontFrame(Head(q), Len(q) - 1) ELSE AllReviewedFrame

HistNext(h, q) == IF q # <<>> THEN [h EXCEPT !.shown = Append(@, Head(q).id)] ELSE h

(***************************************************************************)
(* new_review and update_rating (srs.rs 66-109, 178-213).  The memory      *)
(* model is the fsrs crate; here its interval depends on the rating alone. *)
(***************************************************************************)
\* CardRating::from_str (models.rs 74-88): the first word found, in this order.
ParseRating(text) ==
    IF "easy" \in text THEN Some("easy")
    ELSE IF "good" \in text THEN Some("good")
    ELSE IF "difficult" \in text THEN Some("difficult")
    ELSE IF "again" \in text THEN Some("again")
    ELSE None

\* A conversion that never fails.
ModelStateOkAlways(card) == TRUE

\* MemoryState::try_from (models.rs 91-105), called when last_reviewed is set.
ModelStateOk(card) ==
    \/ card.last_reviewed = None
    \/ IsSome(card.last_stability) /\ IsSome(card.last_difficulty)

\* MemoryState::try_from(&Flashcard) (models.rs 91-104): None is the Err
MemoryStateOf(card) ==
    IF IsSome(card.last_stability) /\ IsSome(card.last_difficulty)
      THEN Some([stability |-> Get(card.last_stability),
                 difficulty |-> Get(card.last_difficulty)])
      ELSE None

\* An elapsed time that counts a started day as a day.
ElapsedDaysRoundedUp(last_review) ==
    (Now - last_review + DayMinutes - 1) \div DayMinutes

\* (Utc::now().naive_utc() - *last_review).num_days() as u32 (srs.rs 105).
\* last_reviewed is a Utc::now() of an earlier rating (srs.rs 79), so the
\* difference is not negative and the cast to u32 keeps the number of days.
ElapsedDays(last_review) == (Now - last_review) \div DayMinutes

NextStatesCall(memory, retention, elapsed) ==
    [memory |-> memory, desired_retention |-> retention, elapsed |-> elapsed]

\* schedule_states (srs.rs 92-109): the call of fsrs.next_states it makes,
\* None when it returns the error of MemoryState::try_from before calling.
schedule_states(card, retention) ==
    IF card.last_reviewed = None
      THEN Some(NextStatesCall(None, retention, 0))
    ELSE IF MemoryStateOf(card) = None THEN None
    ELSE Some(NextStatesCall(MemoryStateOf(card), retention,
                             ElapsedDays(Get(card.last_reviewed))))

\* An ItemState of the fsrs crate; the interval is in thousandths of a day.
ItemState(stability, difficulty, interval) ==
    [memory |-> [stability |-> stability, difficulty |-> difficulty],
     interval |-> interval]

\* fsrs.next_states: the memory model is a collaborator.  Its four candidates
\* differ in memory and interval; the interval is the time after which the
\* recall probability falls to the desired retention, so it is zero for a
\* retention of 100%, and a fraction of a day for 'again'.
next_states(c) ==
    LET zero == c.desired_retention >= MaxSetting
    IN  [again |-> ItemState(1, 8, IF zero THEN 0 ELSE 7),
         hard |-> ItemState(2, 7, IF zero THEN 0 ELSE 1000),
         good |-> ItemState(3, 6, IF zero THEN 0 ELSE 3000),
         easy |-> ItemState(4, 5, IF zero THEN 0 ELSE 7000)]

\* A match that takes the 'again' candidate for the rating 'difficult'.
CandidateDifficultIsAgain(states, rating) ==
    CASE rating = "easy" -> states.easy
      [] rating = "good" -> states.good
      [] rating = "difficult" -> states.again
      [] rating = "again" -> states.again

\* match rating { Easy => easy, Good => good, Difficult => hard, Again => again }
\* (srs.rs 72-77)
Candidate(states, rating) ==
    CASE rating = "easy" -> states.easy
      [] rating = "good" -> states.good
      [] rating = "difficult" -> states.hard
      [] rating = "again" -> states.again

\* TimeDelta::minutes((next_state.interval * 24.0 * 60.0) as i64) (srs.rs 78):
\* the cast cuts the fraction of a minute off.
IntervalMinutes(interval) == (interval * DayMinutes) \div 1000

\* new_review (srs.rs 66-90): the FlashcardReviewNew, None for the Err of
\* schedule_states.
new_review(card, rating, retention) ==
    LET c == schedule_states(card, retention)
    IN  IF c = None THEN None
        ELSE LET next_state == Candidate(next_states(Get(c)), rating)
             IN  Some([flashcard_id |-> card.id,
                       reviewed |-> Now,
                       scheduled |-> Now + IntervalMinutes(next_state.interval),
                       rating |-> rating,
                       stability |-> next_state.memory.stability,
                       difficulty |-> next_state.memory.difficulty])

\* An UPDATE ... WHERE id = $6 alone.
UpdateMatchesAnyOwner(db, id, user) == id \in DOMAIN db

\* The row the UPDATE ... WHERE id = $6 AND deck_id IN (decks of $7) touches.
UpdateMatches(db, id, user) ==
    id \in DOMAIN db /\ DeckOwner(db[id].deck_id) = user

\* How update_rating ends: "ok", or the error it returns.
RatingOutcome(db, card, user, dbOk) ==
    IF ~ModelStateOk(card) THEN "model_state"
    ELSE IF ~dbOk THEN "db"
    ELSE IF ~UpdateMatches(db, card.id, user) THEN "not_found"
    ELSE "ok"

\* An UPDATE that leaves last_difficulty out.
RatedRowWithoutDifficulty(row, update) ==
    [row EXCEPT !.last_rating = Some(update.rating),
                !.last_reviewed = Some(update.reviewed),
                !.last_scheduled = Some(update.scheduled),
                !.last_stability = Some(update.stability)]

\* UPDATE flashcard SET last_rating = $1, last_reviewed = $2, last_scheduled = $3,
\* last_stability = $4, last_difficulty = $5 (srs.rs 190-195)
RatedRow(row, update) ==
    [row EXCEPT !.last_rating = Some(update.rating),
                !.last_reviewed = Some(update.reviewed),
                !.last_scheduled = Some(update.scheduled),
                !.last_stability = Some(update.stability),
                !.last_difficulty = Some(update.difficulty)]

\* The store after update_rating: the update is computed from the card the
\* session holds, with the session's desired_retention.
StoreAfterRating(db, card, rating, outcome) ==
    IF outcome = "ok"
      THEN [db EXCEPT ![card.id] =
              RatedRow(db[card.id], Get(new_review(card, rating, desired_retention)))]
      ELSE db

\* A handler that advances only when the rating was persisted.
CardsAfterRatingStaysOnError(q, outcome) ==
    IF outcome = "ok" \/ outcome = "none" THEN NextCards(q) ELSE q

\* srs.rs 240-246: an error of update_rating is logged, and the handler goes
\* on to next_card_or_finish whatever the outcome.
CardsAfterRating(q, outcome) == NextCards(q)

(***************************************************************************)
(* on_reveal (srs.rs 215-226).                                             *)
(***************************************************************************)
RevealEffect ==
    /\ IF IsSome(last_card)
         THEN /\ sent' = SentWith(RevealFrame(Get(last_card)))
              /\ errors' = ErrorsWith(errors)
              /\ hist' = hist
         ELSE UNCHANGED <<sent, errors, hist>>
    /\ UNCHANGED <<store, transportVars, handlers, reviewVars, settingsVars>>
    /\ UNCHANGED extVars

\* The inbound task dispatches a frame to the handlers on_session registered.
Dispatching ==
    /\ inbound = "running"
    /\ handlers
    /\ Len(sent) < MaxSent
    /\ Len(errors) < MaxErrors

(***************************************************************************)
(* on_transcription (srs.rs 228-257), run by the task the transcription    *)
(* handler spawns for a final transcription (srs.rs 466-483).              *)
(***************************************************************************)
Texts == {{"start"}, {"reveal"}, {"easy"}, {"good"}, {"difficult"}, {"again"},
          {"hello"}, {"reveal", "good"}}

StartEffect ==
    /\ started' = TRUE
    /\ cards' = NextCards(cards)
    /\ last_card' = NextLast(cards, last_card)
    /\ sent' = SentWith(NextFrame(cards))
    /\ errors' = ErrorsWith(errors)
    /\ hist' = HistNext([hist EXCEPT !.atStart = Ids(cards)], cards)
    /\ UNCHANGED <<store, transportVars, handlers, tasks, settingsVars>>
    /\ UNCHANGED extVars

RateEffect(rating, dbOk) ==
    LET rated == IsSome(last_card)
        outcome == IF rated
                     THEN RatingOutcome(store, Get(last_card), SessionUser, dbOk)
                     ELSE "none"
        errs == IF rated /\ outcome # "ok" THEN Append(errors, outcome) ELSE errors
        h1 == [hist EXCEPT
                 !.ratings = @ + 1,
                 !.failures = IF rated /\ outcome # "ok" THEN @ + 1 ELSE @,
                 !.persisted = IF outcome = "ok"
                                 THEN Append(@, Get(last_card).id) ELSE @]
    IN  /\ store' = IF rated
                      THEN StoreAfterRating(store, Get(last_card), rating, outcome)
                      ELSE store
        /\ cards' = CardsAfterRating(cards, outcome)
        /\ last_card' = NextLast(cards, last_card)
        /\ sent' = SentWith(NextFrame(cards))
        /\ errors' = ErrorsWith(errs)
        /\ hist' = HistNext(h1, cards)
        /\ UNCHANGED <<transportVars, handlers, started, tasks, settingsVars>>
        /\ UNCHANGED extVars

\* A test that lets a rating word win over 'reveal'.
IsRevealUnlessRated(text) == "reveal" \in text /\ ParseRating(text) = None

\* text.contains("reveal"), tested before the rating is parsed (srs.rs 232)
IsReveal(text) == "reveal" \in text

\* A parse that takes a text without a rating word for 'again'.
ParseCommandDefaultsToAgain(text) ==
    IF ParseRating(text) = None THEN Some("again") ELSE ParseRating(text)

\* text.parse::<CardRating>() (srs.rs 234)
ParseCommand(text) == ParseRating(text)

OnTranscription(text, final, dbOk) ==
    /\ Dispatching
    /\ IF ~final THEN UNCHANGED vars
       ELSE IF started
         THEN IF IsReveal(text) THEN RevealEffect
              ELSE IF IsSome(ParseCommand(text))
                THEN RateEffect(Get(ParseCommand(text)), dbOk)
                ELSE UNCHANGED vars
         ELSE IF "start" \in text THEN StartEffect
              ELSE UNCHANGED vars

\* srs.rs 455-465: a head position containing "up", or any button press.
OnHeadPosition(position) ==
    /\ Dispatching
    /\ IF position = "up" THEN RevealEffect ELSE UNCHANGED vars

OnButtonPress ==
    /\ Dispatching
    /\ RevealEffect

(***************************************************************************)
(* Settings: update_user_settings and extract_settings (srs.rs 259-297),   *)
(* UserSettings' setters (srs.rs 49-63).  A payload is the "settings"      *)
(* array; an entry's value is None when it is not an unsigned integer.     *)
(***************************************************************************)
Entry(key, value) == [key |-> key, value |-> value]

MaxCardsValues == {0, 2, MaxSetting + 1}

SettingsPayloads ==
    {<<>>}
        \cup {<<Entry("max_cards_per_session", Some(v))>> : v \in MaxCardsValues}
        \cup {<<Entry("max_cards_per_session", None)>>}

\* The values an entry can carry: None is a value that is not an unsigned
\* integer; the last one is 1 when cut to eight bits.
SettingValues == {None, Some(0), Some(2), Some(50), Some(MaxSetting),
                  Some(MaxSetting + 1), Some(2 ^ 8 + 1)}

SettingKeys == {"max_cards_per_session", "desired_retention"}

\* Arrays of at most two entries: one setting, an entry with another key, the
\* same setting twice, and both settings.
AllSettingsPayloads ==
    LET entries == {Entry(k, v) : k \in SettingKeys, v \in SettingValues}
    IN  {<<>>, <<Entry("other", Some(2))>>}
          \cup {<<a>> : a \in entries}
          \cup {p \in {<<a, b>> : a \in entries, b \in entries} :
                  p[2].key = p[1].key \/ p[2].key = "desired_retention"}

\* A scan that keeps every unsigned integer.
ValidSettingKeepsAny(value) == value

\* .filter(|x| *x > 0 && *x <= 100)
ValidSetting(value) ==
    IF IsSome(value) /\ Get(value) > 0 /\ Get(value) <= MaxSetting
      THEN value ELSE None

\* The loop over the array: every entry with the key overwrites the result.
RECURSIVE ExtractFrom(_, _, _)
ExtractFrom(payload, key, acc) ==
    IF payload = <<>> THEN acc
    ELSE ExtractFrom(Tail(payload), key,
                     IF Head(payload).key = key
                       THEN ValidSetting(Head(payload).value) ELSE acc)

extract_settings(payload, key) == ExtractFrom(payload, key, None)

\* `max_cards as u8` / `retention as u8` (srs.rs 272, 275; sdk.rs 527, 530)
AsU8(x) == x % (2 ^ 8)

\* set_max_cards_per_session / set_desired_retention, given the value as u8
SetSetting(old, new) ==
    IF IsSome(new) /\ AsU8(Get(new)) <= MaxSetting /\ AsU8(Get(new)) > 0
      THEN AsU8(Get(new)) ELSE old

(***************************************************************************)
(* refetch_cards_initial_change (srs.rs 488-525): the test made in the     *)
(* handler, and the task it spawns.                                        *)
(***************************************************************************)
\* A test that does not look at the started flag.
ShouldRefetchIgnoresStarted(isStarted, q, maxCards) ==
    q # <<>> /\ Len(q) # maxCards

ShouldRefetch(isStarted, q, maxCards) ==
    ~isStarted /\ q # <<>> /\ Len(q) # maxCards

Task(st, limit, result) == [st |-> st, limit |-> limit, result |-> result]

\* srs.rs 435-453: the "connected" and "settings_update" handlers.  A frame
\* without a settings field reaches neither handler's body.
SettingsEventWithin(kind, payload, most) ==
    /\ inbound = "running"
    /\ IF handlers /\ IsSome(payload)
         THEN LET newMax == SetSetting(max_cards_per_session,
                               extract_settings(Get(payload), "max_cards_per_session"))
                  newRet == SetSetting(desired_retention,
                               extract_settings(Get(payload), "desired_retention"))
              IN  /\ max_cards_per_session' = newMax
                  /\ desired_retention' = newRet
                  /\ IF ShouldRefetch(started, cards, newMax)
                       THEN /\ Len(tasks) < most
                            /\ tasks' = Append(tasks, Task("spawned", 0, <<>>))
                       ELSE tasks' = tasks
         ELSE UNCHANGED <<tasks, settingsVars>>
    /\ UNCHANGED <<store, transportVars, sent, handlers, cards, started,
                   last_card, errors, hist>>
    /\ UNCHANGED extVars

SettingsEvent(kind, payload) == SettingsEventWithin(kind, payload, MaxRequeue)

\* The spawned task reads the limit (srs.rs 501).
RequeueStart(i) ==
    /\ i \in DOMAIN tasks
    /\ tasks[i].st = "spawned"
    /\ tasks' = [tasks EXCEPT ![i] = Task("limited", max_cards_per_session, <<>>)]
    /\ UNCHANGED <<store, transportVars, sent, handlers, cards, started,
                   last_card, settingsVars, errors, hist>>
    /\ UNCHANGED extVars

\* get_cards returns (srs.rs 498-504, 519-521).
RequeueFetch(i, dbOk) ==
    /\ i \in DOMAIN tasks
    /\ tasks[i].st = "limited"
    /\ IF dbOk
         THEN /\ tasks' = [tasks EXCEPT ![i] =
                    Task("fetched", @.limit, get_cards(store, SessionUser, @.limit))]
              /\ errors' = errors
         ELSE /\ tasks' = [tasks EXCEPT ![i] = Task("done", @.limit, <<>>)]
              /\ errors' = Append(errors, "fetch")
    /\ UNCHANGED <<store, transportVars, sent, handlers, cards, started,
                   last_card, settingsVars, hist>>
    /\ UNCHANGED extVars

\* srs.rs 505-517: the queue is drained and refilled, then on_init announces.
RequeueApply(i) ==
    /\ i \in DOMAIN tasks
    /\ tasks[i].st = "fetched"
    /\ cards' = PushAll(<<>>, tasks[i].result)
    /\ tasks' = [tasks EXCEPT ![i] = Task("done", @.limit, <<>>)]
    /\ sent' = SentWith(AnnounceFrame(Len(tasks[i].result)))
    /\ errors' = ErrorsWith(errors)
    /\ hist' = [hist EXCEPT !.lateRequeue = @ \/ started]
    /\ UNCHANGED <<store, transportVars, handlers, started, last_card,
                   settingsVars>>
    /\ UNCHANGED extVars

\* srs.rs 505-507, one turn of `while !cards.is_empty() { cards.pop() }`: the
\* tasks run on a multi-threaded runtime, so the turns of two tasks mix.
RequeueDrain(i) ==
    /\ i \in DOMAIN tasks
    /\ tasks[i].st = "fetched"
    /\ IF cards # <<>>
         THEN /\ cards' = Tail(cards)
              /\ tasks' = tasks
         ELSE /\ tasks' = [tasks EXCEPT ![i].st = "pushing"]
              /\ cards' = cards
    /\ UNCHANGED <<store, transportVars, sent, handlers, started, last_card,
                   settingsVars, errors, hist>>
    /\ UNCHANGED extVars

\* srs.rs 508-510, one turn of `for card in cards { cards.force_push(card) }`.
RequeuePush(i) ==
    /\ i \in DOMAIN tasks
    /\ tasks[i].st = "pushing"
    /\ IF tasks[i].result # <<>>
         THEN /\ cards' = ForcePush(cards, Head(tasks[i].result))
              /\ tasks' = [tasks EXCEPT ![i].result = Tail(@)]
         ELSE /\ tasks' = [tasks EXCEPT ![i].st = "filled"]
              /\ cards' = cards
    /\ UNCHANGED <<store, transportVars, sent, handlers, started, last_card,
                   settingsVars, errors, hist>>
    /\ UNCHANGED extVars

\* srs.rs 516 and on_init (345-366): the announcement of the queue as it is.
RequeueAnnounce(i) ==
    /\ i \in DOMAIN tasks
    /\ tasks[i].st = "filled"
    /\ Len(sent) < MaxSent
    /\ Len(errors) < MaxErrors
    /\ tasks' = [tasks EXCEPT ![i].st = "done"]
    /\ sent' = SentWith(AnnounceFrame(Len(cards)))
    /\ errors' = ErrorsWith(errors)
    /\ hist' = [hist EXCEPT !.lateRequeue = @ \/ started]
    /\ UNCHANGED <<store, transportVars, handlers, cards, started, last_card,
                   settingsVars>>
    /\ UNCHANGED extVars

(***************************************************************************)
(* settings_handler (sdk.rs 498-542): the HTTP route sets the settings of  *)
(* the registered sessions of the user; it does not look at the queue.     *)
(***************************************************************************)
SettingsHandler(payload) ==
    /\ IF SessionId \in active_sessions
         THEN /\ max_cards_per_session' =
                    SetSetting(max_cards_per_session,
                               extract_settings(payload, "max_cards_per_session"))
              /\ desired_retention' =
                    SetSetting(desired_retention,
                               extract_settings(payload, "desired_retention"))
         ELSE UNCHANGED settingsVars
    /\ UNCHANGED <<store, transportVars, sent, handlers, reviewVars, errors, hist>>
    /\ UNCHANGED extVars

(***************************************************************************)
(* The sink's lock.  connect wraps the write half in Arc<Mutex<..>>        *)
(* (app_session.rs 156-160); tokio's Mutex hands the lock to its waiters   *)
(* in the order in which they called lock().  Every writer takes the lock, *)
(* sends one frame and drops the guard: the init message (180-183), a      *)
(* subscription (687-693), a display request (718-722, srs.rs 136-140), a  *)
(* pong (267).  A frame is written in two pieces.                          *)
(***************************************************************************)
\* A connection on which the pong is written without the lock.
TakesLockExceptPong(w) == w # "inbound"

\* Every send site calls lock() on the same Mutex before it sends.
TakesLock(w) == TRUE

HandshakeSent ==
    \E i \in 1..Len(wire) : wire[i] = [w |-> "connect", part |-> 2]

OnSessionSent ==
    \E i \in 1..Len(wire) : wire[i] = [w |-> "on_session", part |-> 2]

\* connect sends the init message once, before it spawns the inbound task
\* and before on_session runs; the review tasks exist once on_session has
\* registered its handlers.
MayWrite(w) ==
    CASE w = "connect" -> ~HandshakeSent
      [] w \in {"on_session", "inbound"} -> HandshakeSent
      [] OTHER -> OnSessionSent

\* sender.lock().await
LockRequest(w) ==
    /\ wpc[w] = "idle"
    /\ MayWrite(w)
    /\ Len(requests) < MaxLockRequests
    /\ requests' = Append(requests, w)
    /\ IF ~TakesLock(w)
         THEN /\ wpc' = [wpc EXCEPT ![w] = "locked"]
              /\ UNCHANGED <<lock_holder, lock_waiters>>
         ELSE IF lock_holder = None
           THEN /\ lock_holder' = Some(w)
                /\ wpc' = [wpc EXCEPT ![w] = "locked"]
                /\ lock_waiters' = lock_waiters
           ELSE /\ lock_waiters' = Append(lock_waiters, w)
                /\ wpc' = [wpc EXCEPT ![w] = "waiting"]
                /\ lock_holder' = lock_holder
    /\ wire' = wire
    /\ UNCHANGED <<coreVars, busVars, call, authVars, fnVars>>

\* .send(frame).await: the frame goes to the sink piece by piece.
SendPiece(w) ==
    /\ wpc[w] \in {"locked", "sending"}
    /\ wire' = Append(wire, [w |-> w, part |-> IF wpc[w] = "locked" THEN 1 ELSE 2])
    /\ wpc' = [wpc EXCEPT ![w] = IF wpc[w] = "locked" THEN "sending" ELSE "sent"]
    /\ UNCHANGED <<coreVars, busVars, call, authVars, fnVars, lock_holder, lock_waiters, requests>>

\* The guard is dropped: the lock goes to the first waiter.
Unlock(w) ==
    /\ wpc[w] = "sent"
    /\ IF lock_holder # Some(w)
         THEN /\ wpc' = [wpc EXCEPT ![w] = "idle"]
              /\ UNCHANGED <<lock_holder, lock_waiters>>
         ELSE IF lock_waiters = <<>>
           THEN /\ lock_holder' = None
                /\ wpc' = [wpc EXCEPT ![w] = "idle"]
                /\ lock_waiters' = lock_waiters
           ELSE /\ lock_holder' = Some(Head(lock_waiters))
                /\ lock_waiters' = Tail(lock_waiters)
                /\ wpc' = [wpc EXCEPT ![w] = "idle", ![Head(lock_waiters)] = "locked"]
    /\ UNCHANGED <<coreVars, busVars, call, authVars, fnVars, wire, requests>>

(***************************************************************************)
(* auth_middleware (sdk/auth.rs 51-159; sdk.rs 100-207 is the same code).  *)
(* A token is what its verifier makes of it: its kind, the identity it     *)
(* names, and whether its signature, digest or exchange checks out.        *)
(***************************************************************************)
Users == {SessionUser, OtherUser}

TokenKinds == {"jwt", "frontend", "temp"}

\* The identity of no characters.  verify_frontend_token accepts the token
\* ":<digest>" whose identity part is empty when the digest is the one of the
\* empty identity (sdk/auth.rs 216-234 has no check on parts[0]).
EmptyIdentity == ""

Tokens ==
    {t \in [kind : TokenKinds, uid : Users, ok : BOOLEAN] : t.ok \/ t.uid = SessionUser}
      \cup {[kind |-> "frontend", uid |-> EmptyIdentity, ok |-> TRUE]}

\* The credentials a method can be given: to a method, a token of a kind it
\* does not verify is one more token that fails.
CredentialsOf(kinds) == {None} \cup {Some(t) : t \in {x \in Tokens : x.kind \in kinds}}

\* cookies.get("aos_session") returns a cookie only when its signature holds.
Requests ==
    [signed_query : CredentialsOf({"jwt"}), bearer : CredentialsOf({"jwt", "frontend"}),
     temp : CredentialsOf({"temp"}), frontend_query : CredentialsOf({"frontend"}),
     cookie : {None} \cup {Some(u) : u \in Users}]

\* verify_signed_user_token (sdk/auth.rs 19-34)
verify_signed_user_token(token) ==
    IF token.kind = "jwt" /\ token.ok THEN Some(token.uid) ELSE None

\* verify_frontend_token (sdk/auth.rs 215-238)
verify_frontend_token(token) ==
    IF token.kind = "frontend" /\ token.ok THEN Some(token.uid) ELSE None

\* exchange_token_with_cloud (sdk/auth.rs 174-213)
exchange_token_with_cloud(token) ==
    IF token.kind = "temp" /\ token.ok THEN Some(token.uid) ELSE None

\* What a branch 1-4 leaves: the identity and the cookie added with it.
Verified(uid, method) ==
    [user_id |-> uid,
     set_cookie |-> uid,
     method |-> IF uid = None THEN "none" ELSE method]

\* A chain that looks at the Authorization header before the query string.
AuthenticateHeaderFirst(r) ==
    IF r.bearer # None
      THEN LET jwt == verify_signed_user_token(Get(r.bearer))
           IN  IF jwt # None THEN Verified(jwt, "bearer")
               ELSE Verified(verify_frontend_token(Get(r.bearer)), "bearer")
    ELSE IF r.signed_query # None
      THEN Verified(verify_signed_user_token(Get(r.signed_query)), "signed_query")
    ELSE IF r.temp # None
      THEN Verified(exchange_token_with_cloud(Get(r.temp)), "temp")
    ELSE IF r.frontend_query # None
      THEN Verified(verify_frontend_token(Get(r.frontend_query)), "frontend_query")
    ELSE IF r.cookie # None
      THEN [user_id |-> r.cookie, set_cookie |-> None, method |-> "cookie"]
    ELSE [user_id |-> None, set_cookie |-> None, method |-> "none"]

\* A chain that renews the cookie when the identity came from the cookie.
AuthenticateRenewsCookie(r) ==
    IF r.signed_query # None
      THEN Verified(verify_signed_user_token(Get(r.signed_query)), "signed_query")
    ELSE IF r.bearer # None
      THEN LET jwt == verify_signed_user_token(Get(r.bearer))
           IN  IF jwt # None THEN Verified(jwt, "bearer")
               ELSE Verified(verify_frontend_token(Get(r.bearer)), "bearer")
    ELSE IF r.temp # None
      THEN Verified(exchange_token_with_cloud(Get(r.temp)), "temp")
    ELSE IF r.frontend_query # None
      THEN Verified(verify_frontend_token(Get(r.frontend_query)), "frontend_query")
    ELSE IF r.cookie # None
      THEN [user_id |-> r.cookie, set_cookie |-> r.cookie, method |-> "cookie"]
    ELSE [user_id |-> None, set_cookie |-> None, method |-> "none"]

\* The if / else-if chain of sdk/auth.rs 65-153: the first credential found
\* in the request picks the branch, and only that branch runs.
Authenticate(r) ==
    IF r.signed_query # None
      THEN Verified(verify_signed_user_token(Get(r.signed_query)), "signed_query")
    ELSE IF r.bearer # None
      THEN LET jwt == verify_signed_user_token(Get(r.bearer))
           IN  IF jwt # None THEN Verified(jwt, "bearer")
               ELSE Verified(verify_frontend_token(Get(r.bearer)), "bearer")
    ELSE IF r.temp # None
      THEN Verified(exchange_token_with_cloud(Get(r.temp)), "temp")
    ELSE IF r.frontend_query # None
      THEN Verified(verify_frontend_token(Get(r.frontend_query)), "frontend_query")
    ELSE IF r.cookie # None
      THEN [user_id |-> r.cookie, set_cookie |-> None, method |-> "cookie"]
    ELSE [user_id |-> None, set_cookie |-> None, method |-> "none"]

\* A request reaches the middleware.
ReceiveRequest(r) ==
    /\ auth_pc = "idle"
    /\ req' = r
    /\ auth_pc' = "received"
    /\ UNCHANGED <<coreVars, busVars, call, lockVars, fnVars, user_id, set_cookie, auth_method,
                   forwarded>>

\* A middleware that answers 401 itself when no method established an identity.
MiddlewareResultRejectsUnverified(a) ==
    IF a.user_id = None THEN "rejected" ELSE "forwarded"

\* sdk/auth.rs 155-158: whatever the chain found, AuthUser is inserted, the
\* request goes to next.run and the function returns Ok.
MiddlewareResult(a) == "forwarded"

\* sdk/auth.rs 58-158: the chain, AuthUser inserted, next.run(req), and the
\* jar's changes added to the response.
AuthMiddleware ==
    /\ auth_pc = "received"
    /\ LET a == Authenticate(req)
       IN  /\ user_id' = a.user_id
           /\ set_cookie' = a.set_cookie
           /\ auth_method' = a.method
           /\ forwarded' = IF MiddlewareResult(a) = "forwarded"
                             THEN forwarded + 1 ELSE forwarded
           /\ auth_pc' = MiddlewareResult(a)
    /\ UNCHANGED <<coreVars, busVars, call, lockVars, fnVars, req>>

(***************************************************************************)
(* verify_frontend_token (sdk/auth.rs 215-238) on the characters of the    *)
(* token.  SHA-256 is a function from texts to hex digests of a fixed      *)
(* length; here the digest is DigestLen characters over the digits 0, 1.   *)
(***************************************************************************)
Chars == {"a", ":", "0", "1"}

TokenTexts == UNION {[1..n -> Chars] : n \in 0..MaxTokenLen}

ApiKey == <<"k">>

CharCode(c) ==
    CASE c = "a" -> 1 [] c = "0" -> 2 [] c = "1" -> 3 [] c = ":" -> 4 [] OTHER -> 5

RECURSIVE Mix(_, _)
Mix(s, h) ==
    IF s = <<>> THEN h
    ELSE Mix(Tail(s), (3 * h + CharCode(Head(s))) % (2 ^ DigestLen))

\* hex::encode of a digest of DigestLen digits
HexEncode(n) ==
    [i \in 1..DigestLen |-> IF (n \div (2 ^ (DigestLen - i))) % 2 = 1 THEN "1" ELSE "0"]

\* hex::encode(Sha256::digest(..)), sdk/auth.rs 222-226
Sha256Hex(s) == HexEncode(Mix(s, 0))

\* token.split(':').collect(), sdk/auth.rs 216
RECURSIVE Split(_)
Split(s) ==
    IF \A i \in 1..Len(s) : s[i] # ":" THEN <<s>>
    ELSE LET i == CHOOSE k \in 1..Len(s) :
                    s[k] = ":" /\ \A j \in 1..(k - 1) : s[j] # ":"
         IN  <<SubSeq(s, 1, i - 1)>> \o Split(SubSeq(s, i + 1, Len(s)))

\* A comparison that stops at the first character.
CtEqFirstByte(a, b) ==
    IF Len(a) # Len(b) THEN 0
    ELSE IF Len(a) = 0 \/ a[1] = b[1] THEN 1 ELSE 0

\* subtle::ConstantTimeEq::ct_eq on byte slices, as called at sdk/auth.rs
\* 228-231: 0 for slices of different lengths, else 1 iff all bytes agree.
ct_eq(a, b) ==
    IF Len(a) # Len(b) THEN 0
    ELSE IF \A i \in 1..Len(a) : a[i] = b[i] THEN 1 ELSE 0

\* expected_hash, sdk/auth.rs 222-226
ExpectedHash(token_user_id, api_key) ==
    Sha256Hex(token_user_id \o Sha256Hex(api_key))

\* verify_frontend_token, sdk/auth.rs 215-238
VerifyFrontendTokenText(text, api_key) ==
    LET parts == Split(text)
    IN  IF Len(parts) # 2 THEN None
        ELSE IF ct_eq(parts[2], ExpectedHash(parts[1], api_key)) = 1
          THEN Some(parts[1])
        ELSE None

\* A token reaches verify_frontend_token.
GiveToken(text) ==
    /\ token_pc = "idle"
    /\ token_text' = text
    /\ token_pc' = "given"
    /\ UNCHANGED <<coreVars, busVars, call, lockVars, authVars, ratingVars, sideVars,
                   token_verdict>>

VerifyFrontendToken ==
    /\ token_pc = "given"
    /\ token_verdict' = VerifyFrontendTokenText(token_text, ApiKey)
    /\ token_pc' = "verified"
    /\ UNCHANGED <<coreVars, busVars, call, lockVars, authVars, ratingVars, sideVars,
                   token_text>>

(***************************************************************************)
(* update_rating on its own (srs.rs 178-213), with new_review and          *)
(* schedule_states (66-109) and MemoryState::try_from (models.rs 91-104).  *)
(* The flashcard is card 1 as the session holds it, a copy of the row the  *)
(* database held when the queue was loaded: its columns are nullable one   *)
(* by one, so it can have last_reviewed without last_stability or          *)
(* last_difficulty; its deck can be another user's (get_cards' WHERE       *)
(* clause lets such cards in), and the row can be gone when the rating     *)
(* arrives (the CRUD surface deletes flashcards).                          *)
(***************************************************************************)
\* The review times tried: a little under, exactly and a little over five
\* days ago, a minute ago, and now.
ReviewTimes ==
    {Now - 5 * DayMinutes - 1, Now - 5 * DayMinutes, Now - 5 * DayMinutes + 1,
     Now - 1, Now}

RatingRows ==
    {[NewRow(1, d) EXCEPT !.last_reviewed = lr, !.last_stability = st,
                          !.last_difficulty = df,
                          !.last_scheduled = IF lr = None THEN None ELSE Some(Now),
                          !.last_rating = IF lr = None THEN None ELSE Some("good")] :
        lr \in {None} \cup {Some(t) : t \in ReviewTimes},
        st \in {None, Some(2)},
        df \in {None, Some(3)},
        d \in Decks}

Retentions == {DefaultRetention, 90, MaxSetting}

\* The session holds this card and this retention; the database holds the
\* card's row, or no longer does.
CardLoaded(row, retention, present) ==
    /\ rating_pc = "idle"
    /\ last_card' = Some(row)
    /\ store' = IF present THEN [store EXCEPT ![row.id] = row]
                ELSE [i \in DOMAIN store \ {row.id} |-> store[i]]
    /\ desired_retention' = retention
    /\ rating_pc' = "loaded"
    /\ UNCHANGED <<transportVars, sent, handlers, cards, started, tasks,
                   max_cards_per_session, errors, hist, busVars, call, lockVars,
                   authVars, tokenVars, sideVars, fsrs_call, rating_result>>

\* update_rating(&card, rating, &session_state) for the card held.
UpdateRating(rating, dbOk) ==
    /\ rating_pc = "loaded"
    /\ LET card == Get(last_card)
           outcome == RatingOutcome(store, card, SessionUser, dbOk)
       IN  /\ fsrs_call' = schedule_states(card, desired_retention)
           /\ rating_result' = outcome
           /\ store' = StoreAfterRating(store, card, rating, outcome)
    /\ rating_pc' = "done"
    /\ UNCHANGED <<transportVars, sent, handlers, reviewVars, settingsVars,
                   errors, hist, busVars, call, lockVars, authVars, tokenVars,
                   sideVars>>

(***************************************************************************)
(* import_anki_text (import.rs 7-68).  A line of the file is its           *)
(* characters in order; a line that starts with "#separator:" is the text  *)
(* that follows that prefix.                                               *)
(***************************************************************************)
LineChars == {Tab, ",", " ", "a", "#"}

RECURSIVE SeqsUpTo(_, _)
SeqsUpTo(S, n) ==
    IF n = 0 THEN {<<>>}
    ELSE LET shorter == SeqsUpTo(S, n - 1)
         IN  shorter \cup {Append(s, c) : s \in shorter, c \in S}

TextLines == {[text |-> s] : s \in SeqsUpTo(LineChars, MaxLineLen)}

DirectiveLines ==
    {[directive |-> d] :
        d \in {"tab", "comma", "semicolon", "space", "','", "'", "Comma"}}

FileLines == TextLines \cup DirectiveLines

IsDirective(line) == "directive" \in DOMAIN line

\* line.starts_with('#')
StartsWithHash(line) ==
    IsDirective(line) \/ (line.text # <<>> /\ Head(line.text) = "#")

\* char::is_whitespace
IsWhitespace(c) == c \in {Tab, " "}

\* str::trim
RECURSIVE TrimStart(_)
TrimStart(s) ==
    IF s # <<>> /\ IsWhitespace(Head(s)) THEN TrimStart(Tail(s)) ELSE s

RECURSIVE TrimEnd(_)
TrimEnd(s) ==
    IF s # <<>> /\ IsWhitespace(s[Len(s)])
      THEN TrimEnd(SubSeq(s, 1, Len(s) - 1)) ELSE s

Trim(s) == TrimEnd(TrimStart(s))

\* str::split(char): the pieces between the separators, empty ones included.
RECURSIVE SplitOn(_, _)
SplitOn(s, sep) ==
    IF \A i \in 1..Len(s) : s[i] # sep THEN <<s>>
    ELSE LET k == CHOOSE i \in 1..Len(s) :
                    s[i] = sep /\ \A j \in 1..(i - 1) : s[j] # sep
         IN  <<SubSeq(s, 1, k - 1)>> \o SplitOn(SubSeq(s, k + 1, Len(s)), sep)

\* import.rs 24-38: the separator a directive's text names, or the current one.
SeparatorNamed(rest, current) ==
    CASE rest = "tab" -> Tab
      [] rest = "comma" -> ","
      [] rest = "semicolon" -> ";"
      [] rest = "space" -> " "
      [] rest = "pipe" -> "|"
      [] rest = "colon" -> ":"
      [] rest = "','" -> ","           \* trimmed.chars().nth(1)
      [] rest = "'" -> Tab             \* .unwrap_or('\t')
      [] OTHER -> current

\* import.rs 46-55: the loop over the enumerated parts.
RECURSIVE ScanParts(_, _, _, _, _)
ScanParts(parts, i, front, back, idx) ==
    IF i >= Len(parts) THEN [front |-> front, back |-> back]
    ELSE LET f == IF i = idx.front THEN Some(Trim(parts[i + 1])) ELSE front
             b == IF i # idx.front /\ i = idx.back
                    THEN Some(Trim(parts[i + 1])) ELSE back
         IN  IF i > idx.back /\ i > idx.front
               THEN [front |-> f, back |-> b]
               ELSE ScanParts(parts, i + 1, f, b, idx)

FlashcardNew(deck_id, front, back) ==
    [deck_id |-> deck_id, front |-> front, back |-> back]

\* import.rs 43-63: a line that is neither a comment nor blank.
CardsWithLine(pushed, line, sep, idx) ==
    LET found == ScanParts(SplitOn(line.text, sep), 0, None, None, idx)
    IN  IF IsSome(found.front) /\ IsSome(found.back)
          THEN Append(pushed, FlashcardNew(1, Get(found.front), Get(found.back)))
          ELSE pushed

\* import_anki_text(deck_id, front_idx, back_idx, file): the locals before
\* the loop.
ImportAnkiText(front, back) ==
    /\ import_pc = "idle"
    /\ import_pc' = "reading"
    /\ front_idx' = front
    /\ back_idx' = back
    /\ separator' = Tab
    /\ flashcards' = <<>>
    /\ lines_read' = <<>>
    /\ UNCHANGED <<coreVars, busVars, call, lockVars, authVars, tokenVars,
                   ratingVars, ratingTaskVars,
                   webhookVars>>

\* One turn of `while let Some(line) = lines.next()`.
ReadLine(line) ==
    /\ import_pc = "reading"
    /\ Len(lines_read) < MaxLines
    /\ lines_read' = Append(lines_read, line)
    /\ IF StartsWithHash(line)
         THEN /\ separator' = IF IsDirective(line)
                                THEN SeparatorNamed(line.directive, separator)
                                ELSE separator
              /\ flashcards' = flashcards
         ELSE IF Trim(line.text) = <<>>
           THEN UNCHANGED <<separator, flashcards>>
           ELSE /\ flashcards' = CardsWithLine(flashcards, line, separator,
                                               [front |-> front_idx, back |-> back_idx])
                /\ separator' = separator
    /\ UNCHANGED <<import_pc, front_idx, back_idx>>
    /\ UNCHANGED <<coreVars, busVars, call, lockVars, authVars, tokenVars,
                   ratingVars, ratingTaskVars,
                   webhookVars>>

(***************************************************************************)
(* The tasks the transcription handler spawns (srs.rs 466-483), each       *)
(* running on_transcription's rating branch (srs.rs 236-247) and           *)
(* next_card_or_finish (149-176) between its awaits.  The runtime is       *)
(* multi-threaded (main.rs 20), and tokio's Mutex serves its waiters in    *)
(* the order they asked.                                                   *)
(***************************************************************************)
RatingTaskIds == 1..MaxRatingTasks

\* The guard of a tokio Mutex: taken at once when it is free and nobody waits.
LockAsked(lock, t) == [lock EXCEPT !.waiters = Append(@, t)]

LockGranted(lock, t) == lock.holder = 0 /\ lock.waiters # <<>> /\ Head(lock.waiters) = t

LockTaken(lock, t) == [holder |-> t, waiters |-> Tail(lock.waiters)]

LockDropped(lock) == [lock EXCEPT !.holder = 0]

\* srs.rs 466-483: a final transcription with a rating word reaches the
\* handler of a started session, which spawns a task for it; tasks are
\* spawned in the order the transcriptions arrive.
SpawnRating(t, rating) ==
    /\ Dispatching
    /\ started
    /\ rating_tasks[t].pc = "none"
    /\ \A u \in RatingTaskIds : u < t => rating_tasks[u].pc # "none"
    /\ rating_tasks' = [rating_tasks EXCEPT
                          ![t] = [pc |-> "spawned", rating |-> rating,
                                  rated |-> None, popped |-> None, left |-> 0]]
    /\ hist' = [hist EXCEPT !.ratings = @ + 1]
    /\ UNCHANGED <<store, transportVars, sent, handlers, reviewVars,
                   settingsVars, errors, last_card_lock>>
    /\ UNCHANGED <<busVars, call, lockVars, authVars, tokenVars, ratingVars,
                   importVars, webhookVars>>

\* srs.rs 229-237: started is loaded, the text parses as a rating, and the
\* task asks for last_card's lock.
RatingAsksCard(t) ==
    /\ rating_tasks[t].pc = "spawned"
    /\ started
    /\ last_card_lock' = LockAsked(last_card_lock, t)
    /\ rating_tasks' = [rating_tasks EXCEPT ![t].pc = "wait_card"]
    /\ UNCHANGED <<coreVars, busVars, call, lockVars, authVars, tokenVars,
                   ratingVars, importVars, webhookVars>>

\* srs.rs 237-245: `if let Some(card) = last_card.lock().await.clone()`: the
\* guard lives to the end of the if-let, so update_rating runs under it.
RatingPersists(t) ==
    /\ rating_tasks[t].pc = "wait_card"
    /\ LockGranted(last_card_lock, t)
    /\ last_card_lock' = LockDropped(LockTaken(last_card_lock, t))
    /\ LET rated == IsSome(last_card)
           outcome == IF rated
                        THEN RatingOutcome(store, Get(last_card), SessionUser, TRUE)
                        ELSE "none"
       IN  /\ store' = IF rated
                         THEN StoreAfterRating(store, Get(last_card),
                                               rating_tasks[t].rating, outcome)
                         ELSE store
           /\ errors' = IF rated /\ outcome # "ok"
                          THEN Append(errors, outcome) ELSE errors
           /\ hist' = [hist EXCEPT
                         !.failures = IF rated /\ outcome # "ok" THEN @ + 1 ELSE @,
                         !.persisted = IF outcome = "ok"
                                         THEN Append(@, Get(last_card).id) ELSE @]
           /\ rating_tasks' = [rating_tasks EXCEPT
                                 ![t].pc = "next",
                                 ![t].rated = IF outcome = "ok"
                                                THEN Some(Get(last_card).id)
                                                ELSE None]
    /\ UNCHANGED <<transportVars, sent, handlers, reviewVars, settingsVars>>
    /\ UNCHANGED <<busVars, call, lockVars, authVars, tokenVars, ratingVars,
                   importVars, webhookVars>>

\* srs.rs 151-157: cards.pop(), and with a card the task asks for the lock
\* again.
RatingPops(t) ==
    /\ rating_tasks[t].pc = "next"
    /\ IF cards # <<>>
         THEN /\ cards' = Tail(cards)
              /\ rating_tasks' = [rating_tasks EXCEPT
                                    ![t].pc = "wait_replace",
                                    ![t].popped = Some(Head(cards))]
              /\ last_card_lock' = LockAsked(last_card_lock, t)
         ELSE /\ rating_tasks' = [rating_tasks EXCEPT ![t].pc = "display"]
              /\ UNCHANGED <<cards, last_card_lock>>
    /\ UNCHANGED <<store, transportVars, sent, handlers, started, last_card,
                   tasks, settingsVars, errors, hist>>
    /\ UNCHANGED <<busVars, call, lockVars, authVars, tokenVars, ratingVars,
                   importVars, webhookVars>>

\* srs.rs 157-163: last_card.lock().await.replace(last_card), then the
\* display request with the length the queue has now.
RatingReplaces(t) ==
    /\ rating_tasks[t].pc = "wait_replace"
    /\ LockGranted(last_card_lock, t)
    /\ last_card_lock' = LockDropped(LockTaken(last_card_lock, t))
    /\ last_card' = rating_tasks[t].popped
    /\ hist' = [hist EXCEPT !.shown = Append(@, Get(rating_tasks[t].popped).id)]
    /\ rating_tasks' = [rating_tasks EXCEPT
                          ![t].pc = "display",
                          ![t].left = Len(cards)]
    /\ UNCHANGED <<store, transportVars, sent, handlers, cards, started, tasks,
                   settingsVars, errors>>
    /\ UNCHANGED <<busVars, call, lockVars, authVars, tokenVars, ratingVars,
                   importVars, webhookVars>>

\* srs.rs 173-175: send_display_request.
RatingDisplays(t) ==
    /\ rating_tasks[t].pc = "display"
    /\ Len(sent) < MaxSent
    /\ Len(errors) < MaxErrors
    /\ sent' = SentWith(IF IsSome(rating_tasks[t].popped)
                          THEN FrontFrame(Get(rating_tasks[t].popped),
                                          rating_tasks[t].left)
                          ELSE AllReviewedFrame)
    /\ errors' = ErrorsWith(errors)
    /\ rating_tasks' = [rating_tasks EXCEPT ![t].pc = "done"]
    /\ UNCHANGED <<store, transportVars, handlers, reviewVars, settingsVars,
                   hist, last_card_lock>>
    /\ UNCHANGED <<busVars, call, lockVars, authVars, tokenVars, ratingVars,
                   importVars, webhookVars>>

(***************************************************************************)
(* The webhooks for one session id (sdk.rs 320-452), each taken whole, and *)
(* the inbound tasks connect() spawns (app_session.rs 206-296).  Every     *)
(* session_request makes a new AppSession with its own EventManager; a     *)
(* task holds the read half of its connection and its session's handler    *)
(* maps, and ends only when its connection closes or fails.                *)
(***************************************************************************)
WebhookOutcomes == {"connect_failed", "on_session_failed", "ok"}

AppSessionIds == 1..MaxWebhooks

LiveTasks == {k \in DOMAIN app_sessions : app_sessions[k].inbound = "running"}

\* sdk.rs 340-400: AppSession::new, connect(), on_session, and
\* active_sessions.insert, which replaces an entry the id already has.
SessionRequestWebhook(outcome) ==
    /\ Len(app_sessions) < MaxWebhooks
    /\ app_sessions' =
          Append(app_sessions,
                 [inbound |-> IF outcome = "connect_failed" THEN "none" ELSE "running",
                  handlers |-> outcome = "ok"])
    /\ registered' = IF outcome = "ok" THEN Len(app_sessions) + 1 ELSE registered
    /\ UNCHANGED <<coreVars, busVars, call, lockVars, authVars, tokenVars,
                   ratingVars, importVars, ratingTaskVars, task_emissions>>

\* sdk.rs 405-452: active_sessions.remove and disconnect(), which sets
\* `connected` to false and nothing else (app_session.rs 660-669).
StopRequestWebhook ==
    /\ app_sessions # <<>>
    /\ registered' = 0
    /\ UNCHANGED <<coreVars, busVars, call, lockVars, authVars, tokenVars,
                   ratingVars, importVars, ratingTaskVars, app_sessions,
                   task_emissions>>

\* app_session.rs 246-259, 284-287: a close frame or an error ends the loop.
ConnectionCloses(k) ==
    /\ k \in LiveTasks
    /\ app_sessions' = [app_sessions EXCEPT ![k].inbound = "ended"]
    /\ UNCHANGED <<coreVars, busVars, call, lockVars, authVars, tokenVars,
                   ratingVars, importVars, ratingTaskVars, registered,
                   task_emissions>>

\* app_session.rs 220-237: task k decodes a frame and emits its event to the
\* handlers of its own session.
TaskEmits(k) ==
    /\ k \in LiveTasks
    /\ Len(task_emissions) < MaxFrames
    /\ task_emissions' =
          Append(task_emissions,
                 [task |-> k, handled |-> app_sessions[k].handlers,
                  live |-> Cardinality(LiveTasks), registered |-> registered])
    /\ UNCHANGED <<coreVars, busVars, call, lockVars, authVars, tokenVars,
                   ratingVars, importVars, ratingTaskVars, app_sessions,
                   registered>>

(***************************************************************************)
(* The specification.                                                      *)
(***************************************************************************)
\* The connection: every outcome of the webhook, of connect and of on_session.
ConnectionSteps ==
    \/ \E url \in UrlKinds : SessionRequest(url)
    \/ \E err \in ConnectErrors : ConnectAttemptFails(err)
    \/ Backoff
    \/ ConnectAttemptSucceeds
    \/ Handshake
    \/ OnSessionSubscribe
    \/ \E dbOk \in BOOLEAN : OnSessionGetCards(dbOk)
    \/ OnSessionFinish
    \/ \E why \in {"close", "error"} : InboundEnds(why)
    \/ StopRequest

\* The review: every frame the handlers react to, and the requeue tasks.
ReviewSteps ==
    \/ \E text \in Texts, final \in BOOLEAN, dbOk \in BOOLEAN :
         OnTranscription(text, final, dbOk)
    \/ \E position \in {"up", "down"} : OnHeadPosition(position)
    \/ OnButtonPress
    \/ \E kind \in {"connected", "settings_update"},
          payload \in {None} \cup {Some(p) : p \in SettingsPayloads} :
         SettingsEvent(kind, payload)
    \/ \E i \in 1..MaxRequeue : RequeueStart(i)
    \/ \E i \in 1..MaxRequeue, dbOk \in BOOLEAN : RequeueFetch(i, dbOk)
    \/ \E i \in 1..MaxRequeue : RequeueApply(i)
    \/ \E payload \in SettingsPayloads : SettingsHandler(payload)

\* A cloud that accepts the first connection attempt.
AcceptingSteps ==
    \/ SessionRequest("trusted")
    \/ ConnectAttemptSucceeds
    \/ Handshake
    \/ OnSessionSubscribe
    \/ OnSessionGetCards(TRUE)
    \/ OnSessionFinish
    \/ \E why \in {"close", "error"} : InboundEnds(why)
    \/ StopRequest

\* The session object in the hands of its owner.
SessionCalls ==
    \/ SubscribeToStreams
    \/ SendDisplayRequest
    \/ Disconnect

Next == ConnectionSteps \/ OnButtonPress

Spec == Init /\ [][Next]_vars

NextReview == AcceptingSteps \/ ReviewSteps

SpecReview == Init /\ [][NextReview]_vars

NextSession == ConnectionSteps \/ SessionCalls

SpecSession == Init /\ [][NextSession]_vars

NextLock ==
    \/ \E w \in Writers : LockRequest(w)
    \/ \E w \in Writers : SendPiece(w)
    \/ \E w \in Writers : Unlock(w)

InitLock == Init /\ store = [i \in CardIds |-> NewRow(i, DeckOf(i))]

SpecLock == InitLock /\ [][NextLock]_vars

NextAuth ==
    \/ \E r \in Requests : ReceiveRequest(r)
    \/ AuthMiddleware

SpecAuth == InitLock /\ [][NextAuth]_vars

\* verify_frontend_token given any text.
NextToken ==
    \/ \E text \in TokenTexts : GiveToken(text)
    \/ VerifyFrontendToken

SpecToken == InitLock /\ [][NextToken]_vars

\* import_anki_text given any column indices and any file.
NextImport ==
    \/ \E front \in 0..MaxIdx, back \in 0..MaxIdx : ImportAnkiText(front, back)
    \/ \E line \in FileLines : ReadLine(line)

SpecImport == InitLock /\ [][NextImport]_vars

\* The webhooks the cloud sends for one session id.
NextWebhooks ==
    \/ \E outcome \in WebhookOutcomes : SessionRequestWebhook(outcome)
    \/ StopRequestWebhook
    \/ \E k \in AppSessionIds : ConnectionCloses(k)
    \/ \E k \in AppSessionIds : TaskEmits(k)

SpecWebhooks == InitLock /\ [][NextWebhooks]_vars

\* A session that is not started, the settings updates it receives and the
\* requeue tasks they spawn.
LimitPayloads == {<<Entry("max_cards_per_session", Some(v))>> : v \in 1..NumCards}

NextRequeue ==
    \/ AcceptingSteps
    \/ \E payload \in LimitPayloads :
         SettingsEventWithin("settings_update", Some(payload), MaxOverlap)
    \/ \E i \in 1..MaxOverlap : RequeueStart(i)
    \/ \E i \in 1..MaxOverlap : RequeueFetch(i, TRUE)
    \/ \E i \in 1..MaxOverlap : RequeueDrain(i)
    \/ \E i \in 1..MaxOverlap : RequeuePush(i)
    \/ \E i \in 1..MaxOverlap : RequeueAnnounce(i)

SpecRequeue == InitLock /\ [][NextRequeue]_vars

\* A started session and the rating tasks its transcription handler spawns.
NextRatingTasks ==
    \/ AcceptingSteps
    \/ OnTranscription({"start"}, TRUE, TRUE)
    \/ \E t \in RatingTaskIds, rating \in {"good", "easy"} : SpawnRating(t, rating)
    \/ \E t \in RatingTaskIds : RatingAsksCard(t)
    \/ \E t \in RatingTaskIds : RatingPersists(t)
    \/ \E t \in RatingTaskIds : RatingPops(t)
    \/ \E t \in RatingTaskIds : RatingReplaces(t)
    \/ \E t \in RatingTaskIds : RatingDisplays(t)

SpecRatingTasks == InitLock /\ [][NextRatingTasks]_vars

\* The three sources of settings: the handshake ack, the settings-update
\* event and the HTTP endpoint.
NextSettings ==
    \/ AcceptingSteps
    \/ \E kind \in {"connected", "settings_update"}, payload \in AllSettingsPayloads :
         SettingsEvent(kind, Some(payload))
    \/ \E payload \in AllSettingsPayloads : SettingsHandler(payload)

SpecSettings == InitLock /\ [][NextSettings]_vars

\* update_rating given any row, retention and rating.
NextRating ==
    \/ \E row \in RatingRows, retention \in Retentions, present \in BOOLEAN :
         CardLoaded(row, retention, present)
    \/ \E rating \in Ratings, dbOk \in BOOLEAN : UpdateRating(rating, dbOk)

SpecRating == InitLock /\ [][NextRating]_vars

\* The review driven by the wearer's commands alone.
NextCommands ==
    \/ AcceptingSteps
    \/ \E text \in Texts, final \in BOOLEAN, dbOk \in BOOLEAN :
         OnTranscription(text, final, dbOk)
    \/ \E position \in {"up", "down"} : OnHeadPosition(position)
    \/ OnButtonPress

SpecCommands == Init /\ [][NextCommands]_vars

\* The event manager in the hands of its caller.
NextBus ==
    \/ \E tag \in {"Transcription", "ButtonPress"}, panics \in BOOLEAN :
         OnStream(tag, panics)
    \/ \E panics \in BOOLEAN : OnSystem("connected", panics)
    \/ \E tag \in {"Transcription", "ButtonPress"} : EmitStreamEvent(tag)
    \/ EmitSystemEvent("connected")

SpecBus == InitLock /\ [][NextBus]_vars

\* A session on an accepting cloud, and the text frames the cloud sends it.
NextInbound ==
    \/ AcceptingSteps
    \/ \E frame \in FrameKinds : InboundFrame(frame)

SpecInbound == InitLock /\ [][NextInbound]_vars

(***************************************************************************)
(* Properties.                                                             *)
(***************************************************************************)
\* The frames next_card_or_finish placed on the connection.
NextFrames == SelectSeq(sent, LAMBDA f : f.kind \in {"front", "all_reviewed"})

LastNextFrame == NextFrames[Len(NextFrames)]

NoDuplicates(seq) == \A i, j \in 1..Len(seq) : i # j => seq[i] # seq[j]

\* The run C1 speaks of: started with n >= 1 cards, no requeue landed after
\* 'start', no rating failed to persist, at most n ratings so far.
PlainRun ==
    /\ started
    /\ Len(hist.atStart) >= 1
    /\ ~hist.lateRequeue
    /\ hist.failures = 0
    /\ hist.ratings <= Len(hist.atStart)

\* C1: with the queue [c1..cn] at 'start' and ratings that persist, after k
\* ratings the reviews of c1..ck are persisted, in that order, and c(k+1) is
\* the current card whose front is displayed, the rest of the queue being
\* c(k+2)..cn; after the n-th rating the queue is empty and the 'all cards
\* reviewed' message is displayed.  Every card is made current once, in
\* queue order.
C1_ReviewInQueueOrder ==
    PlainRun =>
      LET n == Len(hist.atStart)
          k == hist.ratings
      IN  /\ hist.persisted = SubSeq(hist.atStart, 1, k)
          /\ \A i \in 1..k : store[hist.atStart[i]].last_reviewed = Some(Now)
          /\ hist.shown = SubSeq(hist.atStart, 1, Min(k + 1, n))
          /\ NoDuplicates(hist.shown)
          /\ NextFrames # <<>>
          /\ k < n => /\ IsSome(last_card)
                      /\ Get(last_card).id = hist.atStart[k + 1]
                      /\ LastNextFrame = FrontFrame(Get(last_card), n - k - 1)
                      /\ Ids(cards) = SubSeq(hist.atStart, k + 2, n)
          /\ k = n => /\ cards = <<>>
                      /\ LastNextFrame = AllReviewedFrame

\* A review of two cards, both rated and persisted, has ended.
C1_Witness ==
    /\ PlainRun
    /\ Len(hist.atStart) = 2
    /\ hist.ratings = 2
    /\ Len(hist.persisted) = 2
    /\ cards = <<>>
    /\ LastNextFrame = AllReviewedFrame

\* "due": last_scheduled is null or not after now.
IsDue(card) ==
    card.last_scheduled = None \/ Get(card.last_scheduled) <= Now

\* C2: every flashcard in the session's queue belongs to a deck of the
\* session's user and is due.
C2_QueueHoldsOwnDueCards ==
    \A i \in 1..Len(cards) :
        DeckOwner(cards[i].deck_id) = SessionUser /\ IsDue(cards[i])

\* C3: once the session is Active the queue changes only by a pop.
C3_ActiveQueueOnlyPops ==
    [][started => (cards' = cards \/ (cards # <<>> /\ cards' = Tail(cards)))]_vars

\* A step in which a "connected" or "settings_update" handler ran.
SettingsEventHandled ==
    /\ handlers
    /\ \E kind \in {"connected", "settings_update"}, p \in SettingsPayloads :
         SettingsEvent(kind, Some(p))

RequeueSpawned == Len(tasks') = Len(tasks) + 1

RatingFailedStep == hist'.failures = hist.failures + 1

\* C5: when persisting a rating fails, the error is logged, the store is
\* left as it was, the rated card is not pushed back and the queue is not
\* rolled back (the handler pops the next card as after a success), and the
\* session still takes commands.
C5_FailedRatingIsNotRolledBack ==
    [][RatingFailedStep =>
          /\ IsSome(last_card)
          /\ store' = store
          /\ hist'.persisted = hist.persisted
          /\ Len(errors') > Len(errors)
          /\ errors'[Len(errors) + 1] \in {"model_state", "db", "not_found"}
          /\ cards' = (IF cards = <<>> THEN <<>> ELSE Tail(cards))
          /\ last_card' = (IF cards = <<>> THEN last_card ELSE Some(Head(cards)))
          /\ \A i \in 1..Len(cards') : cards'[i] = cards[i + 1]
          /\ started' /\ handlers' /\ inbound' = "running"]_vars

\* The first card's rating failed to persist, the second card's was written.
C5_Witness ==
    /\ hist.failures = 1
    /\ hist.ratings = 2
    /\ Len(hist.atStart) >= 2
    /\ ~hist.lateRequeue
    /\ hist.persisted = <<hist.atStart[2]>>

\* C6: after a stop_request removed the session, no frame is placed on the
\* connection.
C6_NoFrameAfterStop ==
    [][hist.stopped => sent' = sent]_vars

\* C7: a session whose inbound loop has ended is not reported as connected.
C7_EndedLoopIsNotConnected ==
    inbound = "ended" => ~connected

\* C8: after a stop_request was handled, and after the connection was closed
\* by the remote or failed, the registry holds no entry for the session.
C8_DestroyedOnStopOrClose ==
    (hist.stopped \/ inbound = "ended") => SessionId \notin active_sessions

FailedAttempts == SelectSeq(connLog, LAMBDA e : e.ev = "attempt" /\ ~e.ok)

Attempts == SelectSeq(connLog, LAMBDA e : e.ev = "attempt")

\* C9: the session is in the registry only if connect and on_session both
\* succeeded; after three failed attempts connect's error is the last
\* attempt's failure and nothing is registered; after a failed on_session
\* the session is disconnected and not registered.
C9_RegisteredOnlyAfterConnectAndInit ==
    /\ SessionId \in active_sessions =>
          connect_result = "ok" /\ handlers /\ response = "success"
    /\ connect_result \notin {"pending", "ok"} =>
          active_sessions = {} /\ ~handlers /\ ~connected /\ response = "error"
    /\ Len(FailedAttempts) = MaxAttempts =>
          /\ connect_result = connLog[Len(connLog)].err
          /\ connLog[Len(connLog)].ev = "attempt"
          /\ active_sessions = {}
    /\ (connect_result = "ok" /\ response = "error") =>
          ~connected /\ active_sessions = {} /\ ~handlers

\* Three attempts failed for different reasons; connect returned the last.
C9_Witness ==
    /\ Len(FailedAttempts) = MaxAttempts
    /\ FailedAttempts[2].err # FailedAttempts[3].err
    /\ connect_result = FailedAttempts[3].err
    /\ response = "error"
    /\ active_sessions = {}

\* C10: at most three attempts, numbered 1, 2, 3; attempt k+1 comes right
\* after a wait of k * 1000 ms, which comes right after the failure of
\* attempt k; nothing follows a success; no wait follows the third failure;
\* connect fails for a refusing endpoint after exactly three attempts.
C10_ThreeAttemptsLinearBackoff ==
    /\ Len(Attempts) <= 3
    /\ \A i \in 1..Len(Attempts) : Attempts[i].n = i
    /\ \A i \in 1..Len(connLog) :
         /\ connLog[i].ev = "attempt" <=> i % 2 = 1
         /\ connLog[i].ev = "wait" =>
              /\ connLog[i - 1].ev = "attempt" /\ ~connLog[i - 1].ok
              /\ connLog[i - 1].n < 3
              /\ connLog[i].n = connLog[i - 1].n * 1000
         /\ (connLog[i].ev = "wait" /\ i > 2) => connLog[i].n > connLog[i - 2].n
         /\ (connLog[i].ev = "attempt" /\ connLog[i].ok) => i = Len(connLog)
         /\ (connLog[i].ev = "attempt" /\ connLog[i].n = 3) => i = Len(connLog)
    /\ connect_result \in ConnectErrors =>
         Len(Attempts) = 3 /\ Len(FailedAttempts) = 3
    /\ connect_result = "ok" => connLog[Len(connLog)].ok

\* The third attempt succeeded, after waits of 1000 and 2000 ms.
C10_Witness ==
    /\ Len(connLog) = 5
    /\ connLog[2].n = 1000
    /\ connLog[4].n = 2000
    /\ connLog[5].ok
    /\ connect_result = "ok"
    /\ response = "success"


InitFrames == SelectSeq(sent, LAMBDA f : f = InitFrame)

\* C11: connect sends one handshake message; the session is connected and
\* its inbound loop runs only after that send succeeded, and the handshake
\* is the first frame on the connection; when the handshake send fails,
\* connect returns that error with the session not connected, no inbound
\* loop and no attempt after the one that opened the socket.
C11_HandshakeBeforeConnected ==
    /\ Len(InitFrames) <= 1
    /\ (connected \/ inbound # "none" \/ connect_result = "ok") =>
          /\ Len(InitFrames) = 1
          /\ sent[1] = InitFrame
          /\ connLog[Len(connLog)].ok
    /\ connect_result = "ok" => inbound # "none"
    /\ connect_result = "Failed to send init message" =>
          /\ ~connected
          /\ inbound = "none"
          /\ sent = <<>>
          /\ connLog[Len(connLog)].ok
          /\ response = "error"
          /\ pc = "done"

\* The socket was opened on the second attempt and closed before the init
\* message could be sent.
C11_Witness ==
    /\ connect_result = "Failed to send init message"
    /\ Len(connLog) = 3
    /\ ~connected

SenderCalled == call'.n = call.n + 1

\* C13: a call of subscribe_to_streams or send_display_request on a session
\* that is not connected fails with the not-connected error and places
\* nothing on the connection; on a connected session with an open socket it
\* places exactly one frame, its own, behind the handshake.
C13_SendersRequireConnected ==
    [][SenderCalled =>
        /\ ~connected => call'.result = "Session not connected" /\ sent' = sent
        /\ (connected /\ wsOpen) =>
              /\ call'.result = "ok"
              /\ sent[1] = InitFrame
              /\ sent' = Append(sent, IF call'.op = "subscribe"
                                        THEN SubscriptionFrame ELSE DisplayFrame)
        /\ call'.result # "ok" => sent' = sent]_vars

\* Both senders were refused on a session whose connect had failed.
C13_Witness ==
    /\ call.n = 2
    /\ call.result = "Session not connected"
    /\ connect_result \in ConnectErrors

\* C15: a session_request whose URL does not parse, has no domain or has
\* another domain than the configured one is answered with an error, and no
\* connection attempt is made, nothing is connected and nothing registered.
C15_UntrustedUrlRejected ==
    hist.url \in UrlKinds \ {"trusted"} =>
        /\ response = "error"
        /\ pc = "done"
        /\ connLog = <<>>
        /\ ~websocket_sender
        /\ ~connected
        /\ inbound = "none"
        /\ sent = <<>>
        /\ active_sessions = {}

C15_Witness ==
    /\ hist.url = "other_domain"
    /\ response = "error"
    /\ connLog = <<>>


InSend == {w \in Writers : wpc[w] \in {"locked", "sending", "sent"}}

\* C12: at most one writer at a time is inside a send on the connection; the
\* pieces of a frame are never interleaved with another writer's; and the
\* frames reach the sink in the order in which their writers asked for the
\* lock.
C12_OneWriterFifo ==
    /\ Cardinality(InSend) <= 1
    /\ \A w \in InSend : lock_holder = Some(w)
    /\ \A i \in 1..Len(wire) :
         /\ wire[i].part = IF i % 2 = 1 THEN 1 ELSE 2
         /\ i % 2 = 0 => wire[i].w = wire[i - 1].w
         /\ wire[i].w = requests[(i + 1) \div 2]

\* The pong and two review tasks asked for the lock while on_session or one
\* of them was sending, and all were served in that order.
C12_Witness ==
    /\ Len(wire) = 2 * MaxLockRequests
    /\ requests[3] # requests[4]
    /\ \E i \in 1..Len(wire) : wire[i].w = "inbound"
    /\ lock_holder = None


\* The identity a credential stands for when it is given to a method.
SubjectAs(cred, kinds) ==
    IF cred # None /\ Get(cred).ok /\ Get(cred).kind \in kinds
      THEN Some(Get(cred).uid) ELSE None

\* C18: the identity bound to a forwarded request is the one of the earliest
\* method, in the order signed query token, bearer header, temporary token,
\* frontend query token, session cookie, whose credential is present; with a
\* valid signed query token and a valid bearer token for someone else, it is
\* the query token's subject.
C18_EarliestPresentMethodDecides ==
    auth_pc = "forwarded" =>
        /\ user_id =
             IF req.signed_query # None THEN SubjectAs(req.signed_query, {"jwt"})
             ELSE IF req.bearer # None THEN SubjectAs(req.bearer, {"jwt", "frontend"})
             ELSE IF req.temp # None THEN SubjectAs(req.temp, {"temp"})
             ELSE IF req.frontend_query # None
               THEN SubjectAs(req.frontend_query, {"frontend"})
             ELSE req.cookie
        /\ (/\ SubjectAs(req.signed_query, {"jwt"}) # None
            /\ SubjectAs(req.bearer, {"jwt"}) # None)
              => user_id = SubjectAs(req.signed_query, {"jwt"})

\* A valid signed query token for one user and a valid bearer token for another.
C18_Witness ==
    /\ auth_pc = "forwarded"
    /\ SubjectAs(req.signed_query, {"jwt"}) = Some(SessionUser)
    /\ SubjectAs(req.bearer, {"jwt"}) = Some(OtherUser)
    /\ user_id = Some(SessionUser)

\* The identity of the first credential, in the chain's order, that verifies.
FirstValid(r) ==
    IF SubjectAs(r.signed_query, {"jwt"}) # None THEN SubjectAs(r.signed_query, {"jwt"})
    ELSE IF SubjectAs(r.bearer, {"jwt", "frontend"}) # None
      THEN SubjectAs(r.bearer, {"jwt", "frontend"})
    ELSE IF SubjectAs(r.temp, {"temp"}) # None THEN SubjectAs(r.temp, {"temp"})
    ELSE IF SubjectAs(r.frontend_query, {"frontend"}) # None
      THEN SubjectAs(r.frontend_query, {"frontend"})
    ELSE r.cookie

\* C19: a credential that is present but fails verification is passed over
\* and the next method is tried, so the request is bound to the identity of
\* the first credential that verifies (a valid session cookie behind an
\* invalid token included).
C19_InvalidCredentialFallsThrough ==
    auth_pc = "forwarded" => user_id = FirstValid(req)

\* C20: a fresh aos_session cookie carrying the verified identity is issued
\* exactly when the identity was established by one of the methods 1-4; none
\* is issued when verification fails or the identity came from the cookie.
C20_CookieIssuedByMethods1To4 ==
    auth_pc = "forwarded" =>
        /\ set_cookie # None <=>
             auth_method \in {"signed_query", "bearer", "temp", "frontend_query"}
        /\ set_cookie # None => set_cookie = user_id
        /\ user_id = None => set_cookie = None
        /\ (/\ req.signed_query = None /\ req.bearer = None /\ req.temp = None
            /\ req.frontend_query = None) => set_cookie = None
        /\ (user_id # None /\ set_cookie = None) => user_id = req.cookie

\* An identity taken from the session cookie: no cookie is issued.
C20_Witness ==
    /\ auth_pc = "forwarded"
    /\ user_id = Some(OtherUser)
    /\ auth_method = "cookie"
    /\ set_cookie = None


\* The handlers registered for a tag before an emit, in registration order.
RegisteredBefore(e) ==
    SelectSeq(SubSeq(registrations, 1, e.regAt),
              LAMBDA r : r.kind = e.kind /\ r.tag = e.tag)

\* C16: an emit invokes every handler registered for its tag exactly once,
\* in the order of registration, and no handler of another tag; an emit on
\* a tag without handlers invokes nothing; for stream tags and event names.
C16_EmitInvokesTagHandlersInOrder ==
    \A n \in 1..Len(emissions) :
        LET e == emissions[n]
            regs == RegisteredBefore(e)
        IN  /\ Len(e.called) = Len(regs)
            /\ \A i \in 1..Len(regs) : e.called[i] = regs[i].id

\* Two handlers of one tag and one of another kind; an emit ran the two.
C16_Witness ==
    \E n \in 1..Len(emissions) :
        /\ Len(emissions[n].called) = 2
        /\ emissions[n].regAt = 3
        /\ emissions[n].kind = "system"

\* C17: a handler's panic is caught: the handlers registered behind it for
\* the tag still run in that emit, each panic is logged, a later emit runs
\* all the tag's handlers again, and emits of other tags run theirs.
C17_PanicIsIsolated ==
    \A n \in 1..Len(emissions) :
        LET e == emissions[n]
            regs == RegisteredBefore(e)
            ran == {e.called[i] : i \in 1..Len(e.called)}
        IN  /\ \A i \in 1..Len(regs) : regs[i].id \in ran
            /\ e.caught = Cardinality({i \in 1..Len(regs) : regs[i].panics})

\* Three handlers of one tag, the middle one panics; two emits ran all three.
C17_Witness ==
    /\ Len(emissions) = 2
    /\ \A n \in 1..2 : Len(emissions[n].called) = 3 /\ emissions[n].caught = 1
    /\ emissions[1].tag = emissions[2].tag
    /\ \E t \in StreamTags :
          /\ Len(stream_handlers[t]) = 3
          /\ ~stream_handlers[t][1].panics
          /\ stream_handlers[t][2].panics
          /\ ~stream_handlers[t][3].panics

Dispatchable(frame) == ~DecodeFails(frame) /\ IsSome(EventOf(frame))

EmittedFrames == [n \in 1..Len(emissions) |-> emissions[n].frame]

\* C14: a text frame that is not JSON or has no string type is skipped: no
\* handler runs for it, the loop keeps running, and every well-formed frame
\* that arrives after it is dispatched, in arrival order.
C14_BadFrameSkippedLoopContinues ==
    \A i \in 1..Len(received) :
        DecodeFails(received[i]) =>
            /\ \A n \in 1..Len(emissions) : emissions[n].frame # i
            /\ inbound \in {"running", "ended"}
            /\ \A j \in (i + 1)..Len(received) :
                 Dispatchable(received[j]) =>
                    \E n \in 1..Len(emissions) : emissions[n].frame = j
            /\ \A n, m \in 1..Len(emissions) :
                 n < m => emissions[n].frame < emissions[m].frame


\* The identities the credentials of a request verify to, method by method.
VerifiedIdentities(r) ==
    {SubjectAs(r.signed_query, {"jwt"}), SubjectAs(r.bearer, {"jwt", "frontend"}),
     SubjectAs(r.temp, {"temp"}), SubjectAs(r.frontend_query, {"frontend"}),
     r.cookie} \ {None}

\* C21: whatever credentials a request carries (present or absent, valid or
\* invalid), the middleware hands it downstream exactly once, with a verified
\* identity or with none; it never rejects or aborts the request itself.
C21_AlwaysForwardedOnce ==
    /\ auth_pc \in {"idle", "received", "forwarded"}
    /\ forwarded = IF auth_pc = "forwarded" THEN 1 ELSE 0
    /\ auth_pc = "forwarded" => user_id \in {None} \cup VerifiedIdentities(req)

\* A request whose only credential is an invalid bearer token went downstream
\* without an identity.
C21_Witness ==
    /\ auth_pc = "forwarded"
    /\ forwarded = 1
    /\ req.bearer # None
    /\ ~Get(req.bearer).ok
    /\ req.signed_query = None /\ req.temp = None /\ req.frontend_query = None
    /\ req.cookie = None
    /\ user_id = None


\* The positions of the ':' characters of a text.
Colons(text) == {i \in 1..Len(text) : text[i] = ":"}

\* A text with the character at one position replaced.
Flip(text, i, c) == [text EXCEPT ![i] = c]

\* C22: verify_frontend_token returns Some(identity) exactly when the token is
\* "<identity>:<digest>" with exactly one ':' and the digest is the hex digest
\* of identity followed by the hex digest of the shared secret; a token that
\* does not split into exactly two parts, or whose digest differs in any one
\* character, gives None.
C22_FrontendTokenAcceptedIffDigestMatches ==
    token_pc = "verified" =>
        /\ token_verdict =
             IF Cardinality(Colons(token_text)) = 1
               THEN LET i == CHOOSE k \in Colons(token_text) : TRUE
                        identity == SubSeq(token_text, 1, i - 1)
                        digest == SubSeq(token_text, i + 1, Len(token_text))
                    IN  IF digest = Sha256Hex(identity \o Sha256Hex(ApiKey))
                          THEN Some(identity) ELSE None
             ELSE None
        /\ token_verdict # None =>
             \A i \in (Len(token_text) - DigestLen + 1)..Len(token_text) :
               \A c \in Chars \ {token_text[i]} :
                 VerifyFrontendTokenText(Flip(token_text, i, c), ApiKey) = None

\* A token of an identity and its digest was accepted.
C22_Witness ==
    /\ token_pc = "verified"
    /\ token_verdict = Some(<<"a">>)
    /\ Len(token_text) = DigestLen + 2


\* C24: an identity bound to a request is a non-empty string, produced by
\* exactly one of the verification methods.
C24_BoundIdentityIsNonEmpty ==
    (auth_pc = "forwarded" /\ user_id # None) =>
        /\ Get(user_id) # EmptyIdentity
        /\ auth_method \in {"signed_query", "bearer", "temp", "frontend_query", "cookie"}

\* C24, at the level of the token's characters: an accepted frontend token
\* names an identity of at least one character.
C24_AcceptedTokenNamesSomeone ==
    (token_pc = "verified" /\ token_verdict # None) => Get(token_verdict) # <<>>


\* The value an array carries for a key: the value of its last entry with
\* that key (None when it has none or when the value is not an integer).
Carried(payload, key) ==
    LET at == {i \in 1..Len(payload) : payload[i].key = key}
    IN  IF at = {} THEN None
        ELSE payload[CHOOSE i \in at : \A j \in at : j <= i].value

InRange(value) == value \in 1..MaxSetting

\* An update from any of the three sources, with this array.
SettingsUpdate(payload) ==
    \/ SettingsEvent("connected", Some(payload))
    \/ SettingsEvent("settings_update", Some(payload))
    \/ SettingsHandler(payload)

\* C25: max_cards_per_session and desired_retention start at 20 and 75 and
\* are within 1..100 in every state; an update that carries 0, a value above
\* 100 or a non-integer for a setting leaves that setting as it was, whether
\* it comes with the handshake ack, the settings-update event or the HTTP
\* settings endpoint, and in whatever order the updates arrive.
C25_SettingsStayInRange ==
    /\ max_cards_per_session = DefaultMaxCards /\ desired_retention = DefaultRetention
    /\ [](InRange(max_cards_per_session) /\ InRange(desired_retention))
    /\ [][\A payload \in AllSettingsPayloads :
            SettingsUpdate(payload) =>
              /\ (Carried(payload, "max_cards_per_session") = None
                    \/ ~InRange(Get(Carried(payload, "max_cards_per_session"))))
                   => max_cards_per_session' = max_cards_per_session
              /\ (Carried(payload, "desired_retention") = None
                    \/ ~InRange(Get(Carried(payload, "desired_retention"))))
                   => desired_retention' = desired_retention]_vars

\* Both settings were moved to the ends of the range by updates.
C25_Witness ==
    /\ max_cards_per_session = MaxSetting
    /\ desired_retention = 2
    /\ SessionId \in active_sessions


\* A final transcription handled by on_transcription.
FinalTranscription(text) ==
    \E dbOk \in BOOLEAN : OnTranscription(text, TRUE, dbOk)

\* C26: before the review has started, a final transcription containing
\* 'start' sets started, pops the first card of the queue, makes it the
\* current card and displays its front with the name of its deck and the
\* number of cards left after the pop; started is never reset.
C26_StartShowsFirstCardWithDeck ==
    [][/\ started => started'
       /\ \A text \in Texts :
            (~started /\ "start" \in text /\ FinalTranscription(text)) =>
              /\ started'
              /\ cards # <<>> =>
                   /\ cards' = Tail(cards)
                   /\ last_card' = Some(Head(cards))
                   /\ sent' = Append(sent,
                                [kind |-> "front", card |-> Head(cards).id,
                                 n |-> Len(cards'),
                                 deck |-> DeckTitle(Head(cards).deck_id)])]_vars

\* C26 without the deck's name: 'start' sets started, pops the first card,
\* makes it current and displays its front and the number left.
C26_StartShowsFirstCard ==
    [][/\ started => started'
       /\ \A text \in Texts :
            (~started /\ "start" \in text /\ FinalTranscription(text)) =>
              /\ started'
              /\ cards # <<>> =>
                   /\ cards' = Tail(cards)
                   /\ last_card' = Some(Head(cards))
                   /\ Len(sent') = Len(sent) + 1
                   /\ sent'[Len(sent')].kind = "front"
                   /\ sent'[Len(sent')].card = Head(cards).id
                   /\ sent'[Len(sent')].n = Len(cards')]_vars


\* A step of one of the three reveal commands.
RevealCommand ==
    \/ \E text \in Texts : "reveal" \in text /\ FinalTranscription(text)
    \/ OnHeadPosition("up")
    \/ OnButtonPress

\* C27: once the review has started, the 'reveal' voice command, an upward
\* head position and a button press display the front and back of the current
\* card and leave the queue, the current card, the started flag and every
\* stored row unchanged; a text with 'reveal' and a rating word in it is
\* handled as 'reveal' alone.
C27_RevealShowsAndChangesNothing ==
    [][(started /\ RevealCommand) =>
          /\ cards' = cards
          /\ last_card' = last_card
          /\ started' = started
          /\ store' = store
          /\ IsSome(last_card) =>
               sent' = Append(sent, Frame("reveal", Get(last_card).id, 0))]_vars

\* The current card was revealed during the review.
C27_Witness ==
    /\ started
    /\ IsSome(last_card)
    /\ sent # <<>>
    /\ sent[Len(sent)] = Frame("reveal", Get(last_card).id, 0)
    /\ cards # <<>>

\* The words on_transcription reacts to during the review.
CommandWords == {"reveal", "easy", "good", "difficult", "again"}

\* C28: once the review has started, a final transcription with neither
\* 'reveal' nor a rating word in it changes nothing: the queue, the current
\* card, the settings and the store stay as they are, nothing is sent and no
\* error is logged.
C28_UnknownTextIsIgnored ==
    [][\A text \in Texts :
          (started /\ text \cap CommandWords = {} /\ FinalTranscription(text))
            => UNCHANGED vars]_vars

\* A review under way with a current card, its connection open and its
\* handlers dispatching: the state in which a text such as "hello" is heard
\* and, nothing being changed, the state after it.
C28_Witness ==
    /\ started
    /\ IsSome(last_card)
    /\ cards # <<>>
    /\ Dispatching
    /\ DisplayOk
    /\ ENABLED FinalTranscription({"hello"})


\* A step of update_rating.
RatingStep == \E rating \in Ratings, dbOk \in BOOLEAN : UpdateRating(rating, dbOk)

\* C29: new_review asks the memory model for the next states with no prior
\* memory state and elapsed = 0 exactly when the flashcard has no
\* last_reviewed; otherwise it passes the stored stability and difficulty and
\* the number of whole days from last_reviewed to now (5 for a gap of five
\* days), and in both cases the retention it was given.
C29_ModelAskedWithStateAndWholeDays ==
    [][RatingStep =>
         LET card == Get(last_card)
         IN  /\ card.last_reviewed = None =>
                  fsrs_call' = Some([memory |-> None,
                                     desired_retention |-> desired_retention,
                                     elapsed |-> 0])
             /\ (fsrs_call' # None /\ Get(fsrs_call').memory = None)
                  => card.last_reviewed = None
             /\ (/\ card.last_reviewed # None
                 /\ card.last_stability # None
                 /\ card.last_difficulty # None) =>
                  /\ fsrs_call' # None
                  /\ Get(fsrs_call').memory =
                       Some([stability |-> Get(card.last_stability),
                             difficulty |-> Get(card.last_difficulty)])
                  /\ Get(fsrs_call').desired_retention = desired_retention
                  /\ LET n == Get(fsrs_call').elapsed
                         gap == Now - Get(card.last_reviewed)
                     IN  /\ n * DayMinutes <= gap
                         /\ gap < (n + 1) * DayMinutes
                         /\ gap = 5 * DayMinutes => n = 5]_vars

\* A card reviewed a minute more than five days ago was rated: elapsed is 5.
C29_Witness ==
    /\ rating_pc = "done"
    /\ rating_result = "ok"
    /\ fsrs_call = Some([memory |-> Some([stability |-> 2, difficulty |-> 3]),
                         desired_retention |-> 90, elapsed |-> 5])

\* C30: for a flashcard with last_reviewed but without last_stability or
\* last_difficulty the computation fails with the model-state error, the
\* memory model is not asked, and the rating writes nothing to the store.
C30_MissingModelStateFailsAndWritesNothing ==
    [][(/\ RatingStep
        /\ Get(last_card).last_reviewed # None
        /\ (Get(last_card).last_stability = None
              \/ Get(last_card).last_difficulty = None)) =>
          /\ fsrs_call' = None
          /\ rating_result' = "model_state"
          /\ store' = store]_vars

\* A rating of a reviewed card that has a stability and no difficulty failed.
C30_Witness ==
    /\ rating_pc = "done"
    /\ rating_result = "model_state"
    /\ fsrs_call = None
    /\ 1 \in DOMAIN store
    /\ store[1] = Get(last_card)
    /\ store[1].last_reviewed # None
    /\ store[1].last_stability # None
    /\ store[1].last_difficulty = None


\* The candidate the memory model gave for a rating, as the claim names it.
Chosen(rating) ==
    LET states == next_states(Get(fsrs_call'))
    IN  IF rating = "easy" THEN states.easy
        ELSE IF rating = "good" THEN states.good
        ELSE IF rating = "difficult" THEN states.hard
        ELSE states.again

\* A rating of the held card that was written: the row holds the candidate's
\* stability and difficulty, last_reviewed = now and last_scheduled = now +
\* trunc(interval * 24 * 60) minutes, which is not before now.
WrittenFromCandidate(rating) ==
    LET row == store'[Get(last_card).id]
        pick == Chosen(rating)
    IN  /\ row.last_rating = Some(rating)
        /\ row.last_stability = Some(pick.memory.stability)
        /\ row.last_difficulty = Some(pick.memory.difficulty)
        /\ row.last_reviewed = Some(Now)
        /\ \E minutes \in 0..(8 * DayMinutes) :
             /\ minutes * 1000 <= pick.interval * DayMinutes
             /\ pick.interval * DayMinutes < (minutes + 1) * 1000
             /\ row.last_scheduled = Some(Now + minutes)
        /\ Get(row.last_scheduled) >= Get(row.last_reviewed)

C33_RatingOnlyToOwnFlashcards ==
    [][\A rating \in Ratings, dbOk \in BOOLEAN :
         (/\ UpdateRating(rating, dbOk)
          /\ \/ Get(last_card).id \notin DOMAIN store
             \/ DeckOwner(store[Get(last_card).id].deck_id) # SessionUser) =>
           /\ store' = store
           /\ rating_result' # "ok"
           /\ (dbOk /\ fsrs_call' # None) => rating_result' = "not_found"]_vars

\* The rating of a card whose row is gone failed as not found.
C33_Witness ==
    /\ rating_pc = "done"
    /\ rating_result = "not_found"
    /\ Get(last_card).id \notin DOMAIN store


\* The five columns update_rating sets.
RatingColumns(row) ==
    <<row.last_rating, row.last_reviewed, row.last_scheduled,
      row.last_stability, row.last_difficulty>>

\* The memory state of a row is whole, and there exactly when it was reviewed.
MemoryStateWhole(row) ==
    /\ row.last_stability = None <=> row.last_difficulty = None
    /\ row.last_stability = None <=> row.last_reviewed = None

\* C32: in every store the ratings of a session reach, each flashcard has
\* last_stability and last_difficulty both present or both absent, absent
\* exactly when last_reviewed is absent; a rating that succeeds writes
\* last_rating, last_reviewed, last_scheduled, last_stability and
\* last_difficulty of one row together, and a rating that fails writes none.
C32_RatingColumnsWrittenTogether ==
    /\ [](\A i \in DOMAIN store : MemoryStateWhole(store[i]))
    /\ [][/\ \A i \in DOMAIN store :
               RatingColumns(store'[i]) # RatingColumns(store[i]) =>
                 /\ \A k \in 1..5 : IsSome(RatingColumns(store'[i])[k])
                 /\ store'[i].last_reviewed = Some(Now)
                 /\ IsSome(last_card) /\ Get(last_card).id = i
                 /\ hist'.persisted = Append(hist.persisted, i)
          /\ hist'.persisted # hist.persisted =>
               /\ \A k \in 1..5 :
                    IsSome(RatingColumns(store'[Get(last_card).id])[k])
               /\ store'[Get(last_card).id].last_reviewed = Some(Now)
               /\ \A i \in DOMAIN store \ {Get(last_card).id} : store'[i] = store[i]
          /\ RatingFailedStep => store' = store]_vars

\* A never-reviewed card was rated and holds all five columns, and another
\* rating of the session failed.
C32_Witness ==
    /\ hist.failures >= 1
    /\ \E i \in DOMAIN store :
         /\ store[i].last_reviewed = Some(Now)
         /\ IsSome(store[i].last_stability)
         /\ IsSome(store[i].last_difficulty)
         /\ hist.persisted = <<i>>


\* The order the comment over the query names: by scheduled time with the
\* never-scheduled flashcards first, ties by id.
UnscheduledFirst(a, b) ==
    IF IsSome(a.last_scheduled) /\ IsSome(b.last_scheduled)
      THEN \/ Get(a.last_scheduled) < Get(b.last_scheduled)
           \/ /\ Get(a.last_scheduled) = Get(b.last_scheduled)
              /\ a.id < b.id
      ELSE IF IsSome(b.last_scheduled) THEN a.last_scheduled = None
      ELSE IF IsSome(a.last_scheduled) THEN FALSE
      ELSE a.id < b.id

\* C34: the queue get_cards loads holds the flashcards the query selects,
\* ordered by scheduled time with the never-scheduled ones first and ties by
\* id, cut to the limit and pushed in that order.
C34_UnscheduledCardsComeFirst ==
    [][cards' # cards /\ pc = "get_cards" =>
         /\ Len(cards') = Min(max_cards_per_session,
                              Cardinality({i \in DOMAIN store :
                                             WhereDue(store[i], SessionUser)}))
         /\ \A i, j \in 1..Len(cards') :
              i < j => UnscheduledFirst(cards'[i], cards'[j])]_vars


\* The fields of a line of text under a separator.
Fields(line, sep) == SplitOn(line.text, sep)

\* A line of text that does not start with '#', is not blank and has a field
\* at both indices.
IsCardLine(line, sep, front, back) ==
    /\ ~IsDirective(line)
    /\ ~(line.text # <<>> /\ Head(line.text) = "#")
    /\ \E i \in 1..Len(line.text) : ~IsWhitespace(line.text[i])
    /\ front < Len(Fields(line, sep))
    /\ back < Len(Fields(line, sep))

\* C35: import_anki_text yields, in file order, exactly one card for every
\* line that does not start with '#', is not blank and has a field at both
\* front_idx and back_idx under the current separator, its front and back
\* those fields trimmed; the other lines yield none, and the separator is a
\* tab until a '#separator:' line names another.
C35_OneCardPerDataLine ==
    [][/\ \A front, back \in 0..MaxIdx :
            ImportAnkiText(front, back) => separator' = Tab /\ flashcards' = <<>>
       /\ \A line \in FileLines :
            ReadLine(line) =>
              /\ flashcards' =
                   IF IsCardLine(line, separator, front_idx, back_idx)
                     THEN Append(flashcards,
                                 [deck_id |-> 1,
                                  front |-> Trim(Fields(line, separator)[front_idx + 1]),
                                  back |-> Trim(Fields(line, separator)[back_idx + 1])])
                     ELSE flashcards
              /\ separator' # separator => IsDirective(line)]_vars

\* The same for an import whose two indices differ.
C35_OneCardPerDataLineOfTwoColumns ==
    [][\A line \in FileLines :
            ReadLine(line) /\ front_idx # back_idx =>
              /\ flashcards' =
                   IF IsCardLine(line, separator, front_idx, back_idx)
                     THEN Append(flashcards,
                                 [deck_id |-> 1,
                                  front |-> Trim(Fields(line, separator)[front_idx + 1]),
                                  back |-> Trim(Fields(line, separator)[back_idx + 1])])
                     ELSE flashcards
              /\ separator' # separator => IsDirective(line)]_vars


\* The 'all cards reviewed' message is the last thing the queue displayed.
QueueEmptyShown ==
    /\ NextFrames # <<>>
    /\ NextFrames[Len(NextFrames)].kind = "all_reviewed"

\* C36: once 'all cards reviewed' has been displayed, a further rating word
\* only displays it again and writes no flashcard, so that no card is written
\* twice for the one time the session presented it.
C36_RatingAfterTheLastCardWritesNothing ==
    /\ [][(QueueEmptyShown /\ hist'.ratings = hist.ratings + 1) =>
            /\ store' = store
            /\ hist'.persisted = hist.persisted
            /\ sent' = Append(sent, AllReviewedFrame)]_vars
    /\ [](\A i, j \in 1..Len(hist.persisted) :
            hist.persisted[i] = hist.persisted[j] => i = j)


\* The ids of a sequence of ids, as a set.
Range(s) == {s[i] : i \in 1..Len(s)}

\* C37: when the tasks of rating transcriptions dispatched back to back have
\* all run, interleaved as they may, each rating was written to a different
\* card, in the order of the queue, and every card that was made the current
\* one and then replaced was rated.
C37_EachRatingToItsOwnCard ==
    (\A t \in RatingTaskIds : rating_tasks[t].pc = "done") =>
      /\ \A t, u \in RatingTaskIds :
           t # u => rating_tasks[t].rated # rating_tasks[u].rated
      /\ hist.persisted = SubSeq(hist.atStart, 1, MaxRatingTasks)
      /\ \A i \in 1..(Len(hist.shown) - 1) : hist.shown[i] \in Range(hist.persisted)


\* C38: every event the inbound task emits for a frame it decoded after
\* connect() returned, the connection ack with the user's settings among
\* them, runs the handler on_session registers for its tag, however the
\* inbound task interleaves with on_session.
C38_NoFrameBeforeTheHandlers ==
    \A i \in 1..Len(emissions) :
      (/\ emissions[i].frame > 0
       /\ \E j \in 1..Len(SessionHandlers) :
            /\ SessionHandlers[j].kind = emissions[i].kind
            /\ SessionHandlers[j].tag = emissions[i].tag) =>
        Len(emissions[i].called) = 1


\* C39: once the requeue tasks of the settings updates a session received
\* before 'start' have all run, overlapping or not, the queue holds every
\* flashcard at most once, at most max_cards_per_session cards, and is what
\* one load of the store with the latest limit gives.
C39_QueueIsOneLoadWithLatestLimit ==
    (/\ ~started
     /\ handlers
     /\ \A i \in DOMAIN tasks : tasks[i].st = "done") =>
      /\ \A i, j \in 1..Len(cards) : cards[i].id = cards[j].id => i = j
      /\ Len(cards) <= max_cards_per_session
      /\ Len(cards) <= QueueCapacity
      /\ cards = get_cards(store, SessionUser, max_cards_per_session)

\* C40: after any session_request and stop_request webhooks for a session id
\* at most one inbound task of that id is alive, and every event its
\* handlers got came from the one task alive at the time.
C40_OneInboundTaskPerSession ==
    /\ Cardinality(LiveTasks) <= 1
    /\ \A i \in 1..Len(task_emissions) :
         task_emissions[i].handled => task_emissions[i].live = 1

====
